---------------------------- MODULE Spec2Model ----------------------------
(***************************************************************************)
(* giri::json::JSON (JSON.h): the tagged-union value, its mutating         *)
(* accessors, the minified serialiser and the recursive-descent parser.    *)
(*                                                                         *)
(* Text is a sequence of characters; a character is a one-token string.    *)
(* Offsets are 0-based as in the source: str[i] is the (i+1)-th element.   *)
(***************************************************************************)
EXTENDS Integers, Sequences, FiniteSets

VARIABLES
    value,   \* the JSON document the program mutates
    ref,     \* the JSON& the running statement holds: a path into value
    stmt,    \* value when the running statement began
    pre,     \* the node the last operation was called on, as it was before
    op,      \* the last operation of the statement: [name, at, key, index, arg]
    out,     \* what the last const access / Load gave its caller
    members, \* the key/value pairs the program wrote text from
    text,    \* the string handed to JSON::Load
    beyond,  \* the bytes the build keeps after the string's terminator
    objs,    \* the JSON objects the program declared: name -> [Type, Internal]
    heap,    \* what new gave: address -> [payload, released]
    log,     \* the statements the program ran on objs, oldest first
    m_Observers, \* the vector of weak_ptr an Observable keeps (per session
                 \* in SpecServer)
    updates,     \* the update() calls the observers got
    m_Instance,  \* Singleton<T>::m_Instance: 0 is nullptr
    instances,   \* the objects of T that are constructed and not deleted
    pc,          \* where each thread is in the function it runs
    io,          \* the io_context: operations waiting, handlers ready to run
    server,      \* the fields of the server: m_NumThreads, m_NewSession
    hist,        \* what the calls so far did, kept for the properties
    session,     \* the fields of one HTTPSession and the handler it is in
    alive        \* the observers that are constructed and not destroyed

json == <<value, ref, stmt, pre, op, out, members, text, beyond>>

memory == <<objs, heap, log>>

threads == <<m_Observers, updates, m_Instance, instances, pc, io, server, hist,
             session, alive>>

vars == <<json, memory, threads>>

\* the parts of the program a specification leaves alone
beside_json == <<memory, threads>>

beside_memory == <<json, threads>>

beside_observable == <<json, memory, m_Instance, instances, pc, io, server,
                       session, alive>>

beside_singleton == <<json, memory, m_Observers, updates, io, server,
                      session, alive>>

beside_server == <<json, memory, m_Instance, instances, session, alive>>

NoMemory ==
    /\ objs = <<>>
    /\ heap = <<>>
    /\ log = <<>>

NoObservable ==
    /\ m_Observers = <<>>
    /\ updates = <<>>
    /\ alive = {}

NoSingleton ==
    /\ m_Instance = 0
    /\ instances = {}

NoServer ==
    /\ pc = <<>>
    /\ io = <<>>
    /\ server = <<>>
    /\ session = <<>>

NoThreads == NoObservable /\ NoSingleton /\ NoServer /\ hist = <<>>

BesideJson == NoMemory /\ NoThreads

---------------------------------------------------------------------------
(* Bounds of the model.                                                    *)
MaxNodes == 2     \* nodes of a document the program still works on
MaxDepth == 2     \* subscripts in one statement
MaxIndex == 3     \* the largest small array subscript
MaxTokens == 3    \* pieces of an input text
MaxMembers == 3   \* members of an object text
MaxBeyond == 1    \* mapped bytes after a string's terminator
MaxChars == 3     \* characters of a string the program converts
MaxElements == 3  \* elements of an array written in a text
MaxArgs == 2      \* arguments of one append call
MaxThreads == 2   \* worker threads of the server
MaxSessions == 2  \* connections the server accepts
MaxRequests == 2  \* requests read on one session
MaxInstances == 3 \* objects the Singleton constructs
MaxObservers == 3 \* subscriptions an Observable holds
MaxBytes == 3     \* bytes of a vector the program encodes
MaxTrail == 2     \* bytes that follow a complete value in a text
MaxSteps == 2     \* statements the program runs on its two objects

---------------------------------------------------------------------------
(* Characters.                                                             *)
NUL == "<NUL>"
BS  == "<BS>"
FF  == "<FF>"
LF  == "\n"
CR  == "\r"
TAB == "\t"
QUOTE  == "\""
BSLASH == "\\"

\* the characters of the model with their ASCII codes
Ascii ==
    << <<NUL, 0>>, <<BS, 8>>, <<TAB, 9>>, <<LF, 10>>, <<FF, 12>>, <<CR, 13>>,
       <<" ", 32>>, <<QUOTE, 34>>, <<"+", 43>>, <<",", 44>>, <<"-", 45>>,
       <<".", 46>>, <<"/", 47>>,
       <<"0", 48>>, <<"1", 49>>, <<"2", 50>>, <<"3", 51>>, <<"4", 52>>,
       <<"5", 53>>, <<"6", 54>>, <<"7", 55>>, <<"8", 56>>, <<"9", 57>>,
       <<":", 58>>, <<"A", 65>>, <<"E", 69>>, <<"F", 70>>,
       <<"[", 91>>, <<BSLASH, 92>>, <<"]", 93>>,
       <<"a", 97>>, <<"b", 98>>, <<"c", 99>>, <<"e", 101>>, <<"f", 102>>,
       <<"k", 107>>, <<"l", 108>>, <<"n", 110>>, <<"r", 114>>, <<"s", 115>>,
       <<"t", 116>>, <<"u", 117>>, <<"x", 120>>, <<"{", 123>>, <<"}", 125>> >>

Char == { Ascii[i][1] : i \in DOMAIN Ascii }

CodeTable ==
    [c \in Char |->
        LET i == CHOOSE j \in DOMAIN Ascii : Ascii[j][1] = c IN Ascii[i][2]]

Code(c) == CodeTable[c]

Digit == {"0", "1", "2", "3", "4", "5", "6", "7", "8", "9"}

isdigit(c) == c \in Digit

isspace(c) == c \in {" ", TAB, LF, CR, FF}

ishex(c) == c \in Digit \cup {"a", "b", "c", "e", "f", "A", "E", "F"}

DigitChar(d) ==
    LET i == CHOOSE j \in DOMAIN Ascii : Ascii[j][2] = 48 + d IN Ascii[i][1]

Max(a, b) == IF a >= b THEN a ELSE b
Min(a, b) == IF a <= b THEN a ELSE b

\* std::string operator< : lexicographic on the character codes
StrLess(a, b) ==
    \E i \in 1..(Min(Len(a), Len(b)) + 1) :
        /\ \A j \in 1..(i - 1) : a[j] = b[j]
        /\ \/ (i > Len(a) /\ i <= Len(b))
           \/ (i <= Len(a) /\ i <= Len(b) /\ Code(a[i]) < Code(b[i]))

---------------------------------------------------------------------------
(* The value: JSON::Class and the BackingData union.                       *)
Null == [Type |-> "Null"]
Boolean(b) == [Type |-> "Boolean", Bool |-> b]
Integral(i) == [Type |-> "Integral", Int |-> i]
\* a double, kept as the decimal mant * 10^exp10 (normalised)
Floating(f) == [Type |-> "Floating", Float |-> f]
String(s) == [Type |-> "String", String |-> s]
Array(l) == [Type |-> "Array", List |-> l]
Object(m) == [Type |-> "Object", Map |-> m]

EmptyMap == [k \in {} |-> Null]

RECURSIVE Norm(_, _)
Norm(m, e) ==
    IF m = 0 THEN [mant |-> 0, exp10 |-> 0]
    ELSE IF m % 10 = 0 THEN Norm(m \div 10, e + 1)
    ELSE [mant |-> m, exp10 |-> e]

---------------------------------------------------------------------------
(* Serialiser.                                                             *)
\* the switch( str[i] ) of json_escape
Escaped(c) ==
    CASE c = QUOTE  -> <<BSLASH, QUOTE>>
      [] c = BSLASH -> <<BSLASH, BSLASH>>
      [] c = BS     -> <<BSLASH, "b">>
      [] c = FF     -> <<BSLASH, "f">>
      [] c = LF     -> <<BSLASH, "n">>
      [] c = CR     -> <<BSLASH, "r">>
      [] c = TAB    -> <<BSLASH, "t">>
      [] OTHER      -> <<c>>

RECURSIVE json_escape(_)
json_escape(str) ==
    IF str = <<>> THEN <<>> ELSE Escaped(Head(str)) \o json_escape(Tail(str))

RECURSIVE Digits(_)
Digits(n) ==
    IF n < 10 THEN <<DigitChar(n)>>
    ELSE Digits(n \div 10) \o <<DigitChar(n % 10)>>

\* std::to_string(long long)
to_string_int(i) == IF i < 0 THEN <<"-">> \o Digits(-i) ELSE Digits(i)

RECURSIVE PadLeft(_, _)
PadLeft(s, n) == IF Len(s) >= n THEN s ELSE PadLeft(<<"0">> \o s, n)

RECURSIVE PadRight(_, _)
PadRight(s, n) == IF Len(s) >= n THEN s ELSE PadRight(s \o <<"0">>, n)

Abs(n) == IF n < 0 THEN -n ELSE n

\* the digits d of a magnitude that is scaled by 10^-k: "int.frac", six
\* digits after the point (digits beyond the sixth are dropped)
FixedPoint(d, k) ==
    SubSeq(d, 1, Len(d) - k) \o <<".">>
        \o SubSeq(PadRight(SubSeq(d, Len(d) - k + 1, Len(d)), 6), 1, 6)

\* std::to_string(double): "%f"
to_string_float(f) ==
    (IF f.mant < 0 THEN <<"-">> ELSE <<>>)
        \o (IF f.exp10 >= 0
            THEN FixedPoint(PadRight(Digits(Abs(f.mant)),
                                     Len(Digits(Abs(f.mant))) + f.exp10), 0)
            ELSE FixedPoint(PadLeft(Digits(Abs(f.mant)), 1 - f.exp10), -f.exp10))

RECURSIVE SortKeys(_)
SortKeys(S) ==
    IF S = {} THEN <<>>
    ELSE LET k == CHOOSE x \in S : \A y \in S \ {x} : StrLess(x, y)
         IN  <<k>> \o SortKeys(S \ {k})

RECURSIVE dumpMinified(_)
RECURSIVE dumpList(_, _)
RECURSIVE dumpMap(_, _, _)

dumpList(l, skip) ==
    IF l = <<>> THEN <<>>
    ELSE (IF skip THEN <<>> ELSE <<",">>)
         \o dumpMinified(Head(l)) \o dumpList(Tail(l), FALSE)

dumpMap(m, keys, skip) ==
    IF keys = <<>> THEN <<>>
    ELSE (IF skip THEN <<>> ELSE <<",">>)
         \o <<QUOTE>> \o Head(keys) \o <<QUOTE, ":">>
         \o dumpMinified(m[Head(keys)]) \o dumpMap(m, Tail(keys), FALSE)

dumpMinified(v) ==
    CASE v.Type = "Null"     -> <<"n", "u", "l", "l">>
      [] v.Type = "Object"   ->
            <<"{">> \o dumpMap(v.Map, SortKeys(DOMAIN v.Map), TRUE) \o <<"}">>
      [] v.Type = "Array"    -> <<"[">> \o dumpList(v.List, TRUE) \o <<"]">>
      [] v.Type = "String"   -> <<QUOTE>> \o json_escape(v.String) \o <<QUOTE>>
      [] v.Type = "Floating" -> to_string_float(v.Float)
      [] v.Type = "Integral" -> to_string_int(v.Int)
      [] v.Type = "Boolean"  ->
            IF v.Bool THEN <<"t", "r", "u", "e">>
            ELSE <<"f", "a", "l", "s", "e">>

---------------------------------------------------------------------------
(* Mutation: SetType and the accessors that go through it.                 *)

\* what SetType allocates for each class
Fresh(type) ==
    CASE type = "Null"     -> Null
      [] type = "Object"   -> Object(EmptyMap)
      [] type = "Array"    -> Array(<<>>)
      [] type = "String"   -> String(<<>>)
      [] type = "Floating" -> Floating([mant |-> 0, exp10 |-> 0])
      [] type = "Integral" -> Integral(0)
      [] type = "Boolean"  -> Boolean(FALSE)

\* SetType without its test of the current type
SetType_fresh(v, type) == Fresh(type)

SetType(v, type) == IF type = v.Type THEN v ELSE Fresh(type)

\* a map whose operator[] makes an absent slot an empty Object
MapSlotObject(m, key) ==
    IF key \in DOMAIN m THEN m
    ELSE [k \in (DOMAIN m) \cup {key} |->
            IF k = key THEN Object(EmptyMap) ELSE m[k]]

\* std::map::operator[] : the slot of key, default-constructed if absent
MapSlot(m, key) ==
    IF key \in DOMAIN m THEN m
    ELSE [k \in (DOMAIN m) \cup {key} |-> IF k = key THEN Null ELSE m[k]]

\* JSON& operator[]( const string &key ): the value afterwards
subscript_key(v, key) == Object(MapSlot(SetType(v, "Object").Map, key))

RECURSIVE Nulls(_)
Nulls(n) == IF n <= 0 THEN <<>> ELSE <<Null>> \o Nulls(n - 1)

\* std::deque::resize( n )
resize(l, n) ==
    IF n <= Len(l) THEN SubSeq(l, 1, n) ELSE l \o Nulls(n - Len(l))

\* unsigned is 32 bits wide: the model keeps an unsigned u >= 2^31 as
\* u - 2^32, so the largest unsigned value is -1
UINT_MAX == -1

\* index >= n, for an unsigned index and a container size n
uge(index, n) == index < 0 \/ index >= n

\* index + 1 in unsigned arithmetic
uinc(index) == IF index = UINT_MAX THEN 0 ELSE index + 1

\* if( index >= Internal.List->size() ) Internal.List->resize( index + 1 );
grown(l, index) == IF uge(index, Len(l)) THEN resize(l, uinc(index)) ELSE l

\* JSON& operator[]( unsigned index ): the value afterwards
subscript_index(v, index) == Array(grown(SetType(v, "Array").List, index))

\* whether std::deque::operator[]( index ) names an element of l
InRange(l, index) == ~uge(index, Len(l))

\* an append that puts the argument before the elements
append_front(v, arg) == Array(<<arg>> \o SetType(v, "Array").List)

\* void append( T arg )
append(v, arg) == Array(Append(SetType(v, "Array").List, arg))

\* operator=( T ) for bool, integral, floating and string arguments
assign(v, arg) ==
    CASE arg.Type = "Boolean"  -> [SetType(v, "Boolean") EXCEPT !.Bool = arg.Bool]
      [] arg.Type = "Integral" -> [SetType(v, "Integral") EXCEPT !.Int = arg.Int]
      [] arg.Type = "Floating" -> [SetType(v, "Floating") EXCEPT !.Float = arg.Float]
      [] arg.Type = "String"   -> [SetType(v, "String") EXCEPT !.String = arg.String]

\* operator=( JSON&& other ): ClearInternal, then take other's Internal and Type
move_assign(v, other) == other

\* what a call gives its caller
Returned(v) == [kind |-> "value", val |-> v]
Thrown(e) == [kind |-> "exception", what |-> e]
NoCall == [kind |-> "none"]

\* a reference to no element
Dangling == [kind |-> "dangling"]

\* a call's outcome and the value it was called on afterwards
Call(result, after) == [result |-> result, after |-> after]

\* at( key ) as the non-const overload does it: through operator[]
at_key_creating(v, key) ==
    Call(Returned(subscript_key(v, key).Map[key]), subscript_key(v, key))

\* const JSON &at( const string &key ) const, on a value of class Object:
\* Internal.Map->at( key )
at_key(v, key) ==
    IF key \in DOMAIN v.Map THEN Call(Returned(v.Map[key]), v)
    ELSE Call(Thrown("std::out_of_range"), v)

\* at( index ) as the non-const overload does it: through operator[]
at_index_creating(v, index) ==
    IF InRange(subscript_index(v, index).List, index)
    THEN Call(Returned(subscript_index(v, index).List[index + 1]),
              subscript_index(v, index))
    ELSE Call(Dangling, subscript_index(v, index))

\* const JSON &at( unsigned index ) const, on a value of class Array:
\* Internal.List->at( index )
at_index(v, index) ==
    IF uge(index, Len(v.List)) THEN Call(Thrown("std::out_of_range"), v)
    ELSE Call(Returned(v.List[index + 1]), v)

\* bool hasKey( const string &key ) const
hasKey(v, key) == IF v.Type = "Object" THEN key \in DOMAIN v.Map ELSE FALSE

\* int length() const
length(v) == IF v.Type = "Array" THEN Len(v.List) ELSE -1

\* int size() const
size(v) ==
    IF v.Type = "Object" THEN Cardinality(DOMAIN v.Map)
    ELSE IF v.Type = "Array" THEN Len(v.List)
    ELSE -1

---------------------------------------------------------------------------
(* References into the document: a JSON& is the path of the subscripts     *)
(* that produced it.                                                       *)
Key(k) == [key |-> k]
Index(i) == [index |-> i]
IsKey(step) == "key" \in DOMAIN step

RECURSIVE Deref(_, _)
Deref(v, path) ==
    IF path = <<>> THEN v
    ELSE IF IsKey(Head(path)) THEN Deref(v.Map[Head(path).key], Tail(path))
    ELSE Deref(v.List[Head(path).index + 1], Tail(path))

RECURSIVE Store(_, _, _)
Store(v, path, n) ==
    IF path = <<>> THEN n
    ELSE IF IsKey(Head(path))
    THEN [v EXCEPT !.Map[Head(path).key] = Store(@, Tail(path), n)]
    ELSE [v EXCEPT !.List[Head(path).index + 1] = Store(@, Tail(path), n)]

RECURSIVE Nodes(_)
RECURSIVE NodesOfList(_)
RECURSIVE NodesOfMap(_, _)
NodesOfList(l) == IF l = <<>> THEN 0 ELSE Nodes(Head(l)) + NodesOfList(Tail(l))
NodesOfMap(m, keys) ==
    IF keys = {} THEN 0
    ELSE LET k == CHOOSE x \in keys : TRUE
         IN  Nodes(m[k]) + NodesOfMap(m, keys \ {k})
Nodes(v) ==
    CASE v.Type = "Array"  -> 1 + NodesOfList(v.List)
      [] v.Type = "Object" -> 1 + NodesOfMap(v.Map, DOMAIN v.Map)
      [] OTHER             -> 1

---------------------------------------------------------------------------
(* Conversions the parser uses.                                            *)

\* string ToString( bool &ok ) const
ToString(v) ==
    CASE v.Type = "String"   -> json_escape(v.String)
      [] v.Type = "Object"   -> dumpMinified(v)
      [] v.Type = "Array"    -> dumpMinified(v)
      [] v.Type = "Boolean"  ->
            IF v.Bool THEN <<"t", "r", "u", "e">>
            ELSE <<"f", "a", "l", "s", "e">>
      [] v.Type = "Floating" -> to_string_float(v.Float)
      [] v.Type = "Integral" -> to_string_int(v.Int)
      [] v.Type = "Null"     -> <<"n", "u", "l", "l">>

RECURSIVE DigitRun(_)
\* the longest prefix of s made of digits
DigitRun(s) ==
    IF s # <<>> /\ isdigit(Head(s)) THEN <<Head(s)>> \o DigitRun(Tail(s))
    ELSE <<>>

RECURSIVE DigitsValue(_, _)
DigitsValue(s, acc) ==
    IF s = <<>> THEN acc
    ELSE DigitsValue(Tail(s), 10 * acc + (Code(Head(s)) - 48))

RECURSIVE StripZeros(_)
StripZeros(s) ==
    IF Len(s) > 1 /\ Head(s) = "0" THEN StripZeros(Tail(s)) ELSE s

\* the digits of LONG_MAX, 2^63 - 1, and of -LONG_MIN
LongMaxDigits ==
    <<"9", "2", "2", "3", "3", "7", "2", "0", "3", "6",
      "8", "5", "4", "7", "7", "5", "8", "0", "7">>

LongMinDigits == [LongMaxDigits EXCEPT ![Len(LongMaxDigits)] = "8"]

\* whether the magnitude written by the digits z (no leading zeros) fits
\* a 64-bit long
FitsLong(z, negative) ==
    \/ Len(z) < Len(LongMaxDigits)
    \/ /\ Len(z) = Len(LongMaxDigits)
       /\ \/ z = LongMaxDigits
          \/ StrLess(z, LongMaxDigits)
          \/ (negative /\ z = LongMinDigits)

Negative(s) == s # <<>> /\ Head(s) = "-"
Unsigned(s) == IF Negative(s) THEN Tail(s) ELSE s
Signed(negative, n) == IF negative THEN -n ELSE n

stol_digits(negative, d) ==
    IF d = <<>> THEN Thrown("std::invalid_argument")
    ELSE IF ~FitsLong(StripZeros(d), negative) THEN Thrown("std::out_of_range")
    ELSE Returned(Signed(negative, DigitsValue(d, 0)))

\* std::stol( s ) for s over '-', '.', digits: the value, or what it throws
stol(s) == stol_digits(Negative(s), DigitRun(Unsigned(s)))

\* the digits after a '.' that follows the integer part of body
FractionAfter(rest) ==
    IF rest # <<>> /\ Head(rest) = "." THEN DigitRun(Tail(rest)) ELSE <<>>

Fraction(body) ==
    FractionAfter(SubSeq(body, Len(DigitRun(body)) + 1, Len(body)))

stod_parts(negative, ip, fp) ==
    IF ip = <<>> /\ fp = <<>> THEN Thrown("std::invalid_argument")
    ELSE Returned(Norm(Signed(negative, DigitsValue(ip \o fp, 0)), -Len(fp)))

\* std::stod( s ) for s over '-', '.', digits
stod(s) == stod_parts(Negative(s), DigitRun(Unsigned(s)), Fraction(Unsigned(s)))

---------------------------------------------------------------------------
(* Parser.  m = [str, g]: the input and the bytes after its terminator.    *)
(* st = [off, ok, exc, hi]: the cursor, the success flag, what has been    *)
(* thrown, and the highest index of str read so far (-1: none).            *)
(* Every operator given a state in which something was thrown returns it.  *)

Mem(str, g) == [str |-> str, g |-> g]

Mapped(m, i) == i <= Len(m.str) + Len(m.g)

\* str[i]: the terminator at i = size(), whatever lies in memory after it
CharAt(m, i) ==
    IF i < Len(m.str) THEN m.str[i + 1]
    ELSE IF i = Len(m.str) THEN NUL
    ELSE IF Mapped(m, i) THEN m.g[i - Len(m.str)]
    ELSE NUL

Read(m, st, i) ==
    [c  |-> CharAt(m, i),
     st |-> [st EXCEPT !.hi = Max(@, i),
                       !.exc = IF Mapped(m, i) THEN @ ELSE "SIGSEGV"]]

\* str[offset]
Peek(m, st) ==
    IF st.exc # "none" THEN [c |-> NUL, st |-> st] ELSE Read(m, st, st.off)

Adv(st, n) == [st EXCEPT !.off = @ + n]
Fail(st) == [st EXCEPT !.ok = FALSE]
Throw(st, e) == [st EXCEPT !.exc = e]
R(st, v) == [st |-> st, v |-> v]

\* str.substr( pos, n )
substr(m, pos, n) == SubSeq(m.str, pos + 1, Min(pos + n, Len(m.str)))

RECURSIVE consume_ws(_, _)
ws_char(m, r) ==
    IF r.st.exc # "none" THEN r.st
    ELSE IF isspace(r.c) THEN consume_ws(m, Adv(r.st, 1))
    ELSE r.st

consume_ws(m, st) == ws_char(m, Peek(m, st))

\* an Object that keeps the first value stored under a key
ObjectPutFirst(obj, Key_, Value_) ==
    IF ToString(Key_) \in DOMAIN obj.Map THEN obj
    ELSE Store(subscript_key(obj, ToString(Key_)), <<Key(ToString(Key_))>>, Value_)

\* Object[Key.ToString()] = Value;
ObjectPut(obj, Key_, Value_) ==
    Store(subscript_key(obj, ToString(Key_)), <<Key(ToString(Key_))>>, Value_)

\* an Array that takes every element at its front
ArrayPutFront(arr, index, Value_) == Array(<<Value_>> \o arr.List)

\* Array[index++] = parse_next( ... );
ArrayPut(arr, index, Value_) ==
    Store(subscript_index(arr, index), <<Index(index)>>, Value_)

IsDelimiter(c) == isspace(c) \/ c = "," \/ c = "]" \/ c = "}"

RECURSIVE parse_next(_, _)
RECURSIVE object_loop(_, _, _)
RECURSIVE array_loop(_, _, _, _)
RECURSIVE string_loop(_, _, _)
RECURSIVE hex_scan(_, _, _, _, _)
RECURSIVE number_scan(_, _, _, _)
RECURSIVE exponent_scan(_, _, _)

(* parse_object *)

\* after the value: ',' goes round the loop, '}' ends it
object_next(m, c, obj) ==
    IF c.st.exc # "none" THEN R(c.st, obj)
    ELSE IF c.c = "," THEN object_loop(m, Adv(c.st, 1), obj)
    ELSE IF c.c = "}" THEN R(Adv(c.st, 1), obj)
    ELSE R(Fail(c.st), obj)

object_value(m, obj, Key_, vl) ==
    IF vl.st.exc # "none" THEN R(vl.st, obj)
    ELSE object_next(m, Peek(m, consume_ws(m, vl.st)), ObjectPut(obj, Key_, vl.v))

\* after the key: the colon
object_colon(m, obj, Key_, c) ==
    IF c.st.exc # "none" THEN R(c.st, obj)
    ELSE IF c.c # ":" THEN R(Fail(c.st), obj)
    ELSE object_value(m, obj, Key_, parse_next(m, consume_ws(m, Adv(c.st, 1))))

object_key(m, obj, k) ==
    object_colon(m, obj, k.v, Peek(m, consume_ws(m, k.st)))

\* the while( true ) of parse_object, entered with the cursor on a key
object_loop(m, st, obj) == object_key(m, obj, parse_next(m, st))

object_first(m, c) ==
    IF c.st.exc # "none" THEN R(c.st, Fresh("Object"))
    ELSE IF c.c = "}" THEN R(Adv(c.st, 1), Fresh("Object"))
    ELSE object_loop(m, c.st, Fresh("Object"))

parse_object(m, st) == object_first(m, Peek(m, consume_ws(m, Adv(st, 1))))

(* parse_array *)

\* after the element: ',' goes round the loop, ']' ends it
array_next(m, c, arr, index) ==
    IF c.st.exc # "none" THEN R(c.st, arr)
    ELSE IF c.c = "," THEN array_loop(m, Adv(c.st, 1), arr, index)
    ELSE IF c.c = "]" THEN R(Adv(c.st, 1), arr)
    ELSE R(Fail(c.st), Fresh("Array"))

array_element(m, arr, index, el) ==
    IF el.st.exc # "none" THEN R(el.st, arr)
    ELSE array_next(m, Peek(m, consume_ws(m, el.st)),
                    ArrayPut(arr, index, el.v), index + 1)

\* the while( true ) of parse_array, entered with the cursor on an element
array_loop(m, st, arr, index) ==
    array_element(m, arr, index, parse_next(m, st))

array_first(m, c) ==
    IF c.st.exc # "none" THEN R(c.st, Fresh("Array"))
    ELSE IF c.c = "]" THEN R(Adv(c.st, 1), Fresh("Array"))
    ELSE array_loop(m, c.st, Fresh("Array"), 0)

parse_array(m, st) == array_first(m, Peek(m, consume_ws(m, Adv(st, 1))))

(* parse_string *)

hex_char(m, r, u, i, val) ==
    IF r.st.exc # "none" THEN [st |-> r.st, val |-> val, hex |-> FALSE]
    ELSE IF ishex(r.c) THEN hex_scan(m, r.st, u, i + 1, val \o <<r.c>>)
    ELSE [st |-> Fail(r.st), val |-> val, hex |-> FALSE]

\* the four characters after \u; u is the offset of the 'u'
hex_scan(m, st, u, i, val) ==
    IF i > 4 THEN [st |-> st, val |-> val, hex |-> TRUE]
    ELSE hex_char(m, Read(m, st, u + i), u, i, val)

string_unicode(m, h) ==
    IF h.st.exc # "none" THEN R(h.st, Null)
    ELSE IF h.hex THEN string_loop(m, Adv(h.st, 5), h.val)
    ELSE R(h.st, Fresh("String"))

\* the switch on the character after a backslash
Unescaped(c) ==
    CASE c = QUOTE  -> QUOTE
      [] c = BSLASH -> BSLASH
      [] c = "/"    -> "/"
      [] c = "b"    -> BS
      [] c = "f"    -> FF
      [] c = "n"    -> LF
      [] c = "r"    -> CR
      [] c = "t"    -> TAB
      [] OTHER      -> BSLASH

string_escape(m, e, val) ==
    IF e.st.exc # "none" THEN R(e.st, Null)
    ELSE IF e.c = "u"
    THEN string_unicode(m, hex_scan(m, e.st, e.st.off, 1, val \o <<BSLASH, "u">>))
    ELSE string_loop(m, Adv(e.st, 1), val \o <<Unescaped(e.c)>>)

string_char(m, r, val) ==
    IF r.st.exc # "none" THEN R(r.st, Null)
    ELSE IF r.c = QUOTE THEN R(Adv(r.st, 1), String(val))
    ELSE IF r.c = BSLASH THEN string_escape(m, Peek(m, Adv(r.st, 1)), val)
    ELSE string_loop(m, Adv(r.st, 1), val \o <<r.c>>)

\* the for loop of parse_string; st.off is the offset of the character c
string_loop(m, st, val) == string_char(m, Peek(m, st), val)

parse_string(m, st) == string_loop(m, Adv(st, 1), <<>>)

(* parse_number *)

number_char(m, r, val, isDouble) ==
    IF r.st.exc # "none"
    THEN [st |-> r.st, val |-> val, isDouble |-> isDouble, c |-> NUL]
    ELSE IF r.c = "-" \/ isdigit(r.c)
    THEN number_scan(m, Adv(r.st, 1), val \o <<r.c>>, isDouble)
    ELSE IF r.c = "." THEN number_scan(m, Adv(r.st, 1), val \o <<r.c>>, TRUE)
    ELSE [st |-> Adv(r.st, 1), val |-> val, isDouble |-> isDouble, c |-> r.c]

\* the first while( true ) of parse_number; the cursor ends one past c
number_scan(m, st, val, isDouble) == number_char(m, Peek(m, st), val, isDouble)

exponent_char(m, r, exp_str) ==
    IF r.st.exc # "none" THEN [st |-> r.st, exp_str |-> exp_str, c |-> NUL]
    ELSE IF isdigit(r.c) THEN exponent_scan(m, Adv(r.st, 1), exp_str \o <<r.c>>)
    ELSE [st |-> Adv(r.st, 1), exp_str |-> exp_str, c |-> r.c]

\* the while( true ) of the exponent; the cursor ends one past c
exponent_scan(m, st, exp_str) == exponent_char(m, Peek(m, st), exp_str)

number_double(st, d, exp) ==
    IF d.kind = "exception" THEN R(Throw(st, d.what), Null)
    ELSE R(st, Floating(Norm(d.val.mant, d.val.exp10 + exp)))

number_long(st, l, exp_str, exp) ==
    IF l.kind = "exception" THEN R(Throw(st, l.what), Null)
    ELSE IF exp_str # <<>> THEN R(st, Floating(Norm(l.val, exp)))
    ELSE R(st, Integral(l.val))

\* exp = std::stol( exp_str ), --offset, Number = ...
number_value(st, val, isDouble, exp_str, exp) ==
    IF exp.kind = "exception" THEN R(Throw(st, exp.what), Null)
    ELSE IF isDouble THEN number_double(Adv(st, -1), stod(val), exp.val)
    ELSE number_long(Adv(st, -1), stol(val), exp_str, exp.val)

exponent_end(n, x) ==
    IF x.st.exc # "none" THEN R(x.st, Null)
    ELSE IF ~IsDelimiter(x.c) THEN R(Fail(x.st), Null)
    ELSE number_value(x.st, n.val, n.isDouble, x.exp_str, stol(x.exp_str))

\* c = str[ offset ]; if( c == '-' ) ...; if( c == '+' ) ...
exponent_sign(m, n, p) ==
    IF p.st.exc # "none" THEN R(p.st, Null)
    ELSE exponent_end(n,
            exponent_scan(m, IF p.c = "-" \/ p.c = "+" THEN Adv(p.st, 1) ELSE p.st,
                             IF p.c = "-" THEN <<"-">> ELSE <<>>))

number_end(m, n) ==
    IF n.st.exc # "none" THEN R(n.st, Null)
    ELSE IF n.c = "E" \/ n.c = "e" THEN exponent_sign(m, n, Peek(m, n.st))
    ELSE IF ~IsDelimiter(n.c) THEN R(Fail(n.st), Null)
    ELSE number_value(n.st, n.val, n.isDouble, <<>>, Returned(0))

parse_number(m, st) == number_end(m, number_scan(m, st, <<>>, FALSE))

(* parse_bool, parse_null, parse_next, Load *)

parse_bool(m, st) ==
    IF st.off > Len(m.str) THEN R(Throw(st, "std::out_of_range"), Null)
    ELSE IF substr(m, st.off, 4) = <<"t", "r", "u", "e">>
    THEN R(Adv(st, 4), Boolean(TRUE))
    ELSE IF substr(m, st.off, 5) = <<"f", "a", "l", "s", "e">>
    THEN R(Adv(st, 5), Boolean(FALSE))
    ELSE R(Fail(st), Null)

parse_null(m, st) ==
    IF st.off > Len(m.str) THEN R(Throw(st, "std::out_of_range"), Null)
    ELSE IF substr(m, st.off, 4) # <<"n", "u", "l", "l">> THEN R(Fail(st), Null)
    ELSE R(Adv(st, 4), Null)

\* the switch( value ) of parse_next
next_switch(m, r) ==
    IF r.st.exc # "none" THEN R(r.st, Null)
    ELSE CASE r.c = "["   -> parse_array(m, r.st)
           [] r.c = "{"   -> parse_object(m, r.st)
           [] r.c = QUOTE -> parse_string(m, r.st)
           [] r.c = "t" \/ r.c = "f" -> parse_bool(m, r.st)
           [] r.c = "n"   -> parse_null(m, r.st)
           [] isdigit(r.c) \/ r.c = "-" -> parse_number(m, r.st)
           [] OTHER       -> R(Fail(r.st), Null)

parse_next(m, st) == next_switch(m, Peek(m, consume_ws(m, st)))

\* what Load's caller gets, with the highest index of str that was read
Outcome(r) ==
    IF r.st.exc # "none"
    THEN [kind |-> "exception", what |-> r.st.exc, hi |-> r.st.hi]
    ELSE [kind |-> "value", val |-> r.v, ok |-> r.st.ok, hi |-> r.st.hi]

\* JSON JSON::Load( const string &str, bool &ok )
Load(str, g) ==
    Outcome(parse_next(Mem(str, g),
                       [off |-> 0, ok |-> TRUE, exc |-> "none", hi |-> -1]))

---------------------------------------------------------------------------
(* The program using a JSON document: statements of the public API.        *)
(* A statement is a chain of subscripts on the document ended by an        *)
(* assignment, an append or nothing; or one const access; or a round trip  *)
(* through dumpMinified and Load.                                          *)

Keys == { <<"a">>, <<"b">> }

Args == { Integral(-3), String(<<"a", QUOTE>>) }

\* array subscripts the program uses
Indices == (0..MaxIndex) \cup {UINT_MAX}

RECURSIVE SeqsUpTo(_, _)
SeqsUpTo(S, n) ==
    IF n = 0 THEN { <<>> }
    ELSE SeqsUpTo(S, n - 1)
            \cup { Append(q, c) : q \in SeqsUpTo(S, n - 1), c \in S }

\* what may lie after the terminator of a string's buffer
Beyond == SeqsUpTo({" ", "]"}, MaxBeyond)

NoOp == [name |-> "none", at |-> <<>>, key |-> <<>>, index |-> 0, arg |-> Null]

Init ==
    /\ value = Null
    /\ ref = <<>>
    /\ stmt = Null
    /\ pre = Null
    /\ op = NoOp
    /\ out = NoCall
    /\ members = <<>>
    /\ text = <<>>
    /\ beyond = <<>>
    /\ BesideJson

\* no statement is running, and the program still works on the document
Idle == op = NoOp /\ Nodes(value) <= MaxNodes

\* the statement holds a JSON& it can go on with
Running ==
    \/ Idle
    \/ /\ op.name \in {"subscript_key", "subscript_index"}
       /\ out = NoCall

\* a mutating member called on the node ref refers to: the node afterwards,
\* the reference the statement holds next, what the call gave
Apply(name, node, next, result) ==
    /\ Running
    /\ value' = Store(value, ref, node)
    /\ ref' = next
    /\ stmt' = IF op = NoOp THEN value ELSE stmt
    /\ pre' = Deref(value, ref)
    /\ op' = [name EXCEPT !.at = ref]
    /\ out' = result
    /\ UNCHANGED <<members, text, beyond>>
    /\ UNCHANGED beside_json

SubscriptKey(k) ==
    /\ Len(ref) < MaxDepth
    /\ Apply([NoOp EXCEPT !.name = "subscript_key", !.key = k],
             subscript_key(Deref(value, ref), k), Append(ref, Key(k)), NoCall)

\* List->operator[]( index ) of an index that names no element is undefined:
\* the statement gets a reference to no element, or a checked build aborts
SubscriptIndex(i) ==
    /\ Len(ref) < MaxDepth
    /\ IF InRange(subscript_index(Deref(value, ref), i).List, i)
       THEN Apply([NoOp EXCEPT !.name = "subscript_index", !.index = i],
                  subscript_index(Deref(value, ref), i),
                  Append(ref, Index(i)), NoCall)
       ELSE \E o \in {Dangling, Thrown("SIGABRT")} :
               Apply([NoOp EXCEPT !.name = "subscript_index", !.index = i],
                     subscript_index(Deref(value, ref), i), <<>>, o)

Assign(x) ==
    Apply([NoOp EXCEPT !.name = "assign", !.arg = x],
          assign(Deref(value, ref), x), <<>>, NoCall)

\* ... = JSON();
AssignNull ==
    Apply([NoOp EXCEPT !.name = "move_assign"],
          move_assign(Deref(value, ref), Null), <<>>, NoCall)

AppendArg(x) ==
    Apply([NoOp EXCEPT !.name = "append", !.arg = x],
          append(Deref(value, ref), x), <<>>, NoCall)

EndStatement ==
    /\ op # NoOp
    /\ ref' = <<>>
    /\ stmt' = value
    /\ pre' = value
    /\ op' = NoOp
    /\ out' = NoCall
    /\ text' = <<>>
    /\ beyond' = <<>>
    /\ UNCHANGED <<value, members>>
    /\ UNCHANGED beside_json

\* a const member called on the document
Query(name, call) ==
    /\ Idle
    /\ out' = call.result
    /\ value' = call.after
    /\ pre' = value
    /\ op' = name
    /\ UNCHANGED <<ref, stmt, members, text, beyond>>
    /\ UNCHANGED beside_json

\* Internal.Map / Internal.List of a value of another class is no
\* container: the call is undefined
Undefined(v) ==
    { Call(o, v) :
        o \in {Returned(Null), Thrown("std::out_of_range"), Thrown("SIGSEGV")} }

AtKey(k) ==
    \E o \in (IF value.Type = "Object" THEN {at_key(value, k)}
              ELSE Undefined(value)) :
        Query([NoOp EXCEPT !.name = "at_key", !.key = k], o)

AtIndex(i) ==
    \E o \in (IF value.Type = "Array" THEN {at_index(value, i)}
              ELSE Undefined(value)) :
        Query([NoOp EXCEPT !.name = "at_index", !.index = i], o)

\* JSON::Load( value.dumpMinified(), ok )
RoundTrip ==
    /\ Idle
    /\ text' = dumpMinified(value)
    /\ beyond' \in Beyond
    /\ out' = Load(text', beyond')
    /\ op' = [NoOp EXCEPT !.name = "Load"]
    /\ UNCHANGED <<value, ref, stmt, pre, members>>
    /\ UNCHANGED beside_json

Next ==
    \/ \E k \in Keys : SubscriptKey(k)
    \/ \E i \in Indices : SubscriptIndex(i)
    \/ \E x \in Args : Assign(x)
    \/ AssignNull
    \/ \E x \in Args : AppendArg(x)
    \/ EndStatement
    \/ \E k \in Keys : AtKey(k)
    \/ \E i \in Indices : AtIndex(i)
    \/ RoundTrip

Spec == Init /\ [][Next]_vars

---------------------------------------------------------------------------
(* The program handing a text to JSON::Load.                               *)

RECURSIVE Flatten(_)
Flatten(ts) == IF ts = <<>> THEN <<>> ELSE Head(ts) \o Flatten(Tail(ts))

\* the pieces the input texts are made of
Tokens ==
    { <<"[">>, <<"]">>, <<"{">>, <<"}">>, <<",">>, <<":">>, <<" ">>,
      <<QUOTE, "k", QUOTE>>, <<QUOTE, BSLASH, "x", QUOTE>>,
      <<"1">>, <<"-">>, <<"e">>, <<"1", ".", "2", ".", "3">>,
      <<"t", "r", "u">>, <<"n", "u", "l", "l">>, <<"[", "1", ",", "2">> }

Texts == { Flatten(ts) : ts \in SeqsUpTo(Tokens, MaxTokens) }

\* the program before it calls Load on text
Loading(ms, t) ==
    /\ members = ms
    /\ text = t
    /\ beyond \in Beyond
    /\ out = NoCall
    /\ op = NoOp
    /\ value = Null
    /\ stmt = Null
    /\ pre = Null
    /\ ref = <<>>
    /\ BesideJson

InitLoad == \E t \in Texts : Loading(<<>>, t)

\* value = JSON::Load( text, ok )
LoadText ==
    /\ op = NoOp
    /\ out' = Load(text, beyond)
    /\ value' = IF out'.kind = "value" THEN out'.val ELSE value
    /\ op' = [NoOp EXCEPT !.name = "Load"]
    /\ UNCHANGED <<ref, stmt, pre, members, text, beyond>>
    /\ UNCHANGED beside_json

NextLoad == LoadText

SpecLoad == InitLoad /\ [][NextLoad]_vars

---------------------------------------------------------------------------
(* The program handing Load an object text it wrote from a list of         *)
(* key/value pairs, keys possibly repeated.                                *)

MemberValues == { Integral(1), Integral(2), Array(<<>>) }

Members == { [key |-> k, val |-> v] : k \in Keys, v \in MemberValues }

RECURSIVE MembersText(_, _)
MembersText(ms, first) ==
    IF ms = <<>> THEN <<>>
    ELSE (IF first THEN <<>> ELSE <<",">>)
         \o <<QUOTE>> \o Head(ms).key \o <<QUOTE, ":">>
         \o dumpMinified(Head(ms).val) \o MembersText(Tail(ms), FALSE)

ObjectText(ms) == <<"{">> \o MembersText(ms, TRUE) \o <<"}">>

InitObject ==
    \E ms \in SeqsUpTo(Members, MaxMembers) : Loading(ms, ObjectText(ms))

NextObject == LoadText

SpecObject == InitObject /\ [][NextObject]_vars

---------------------------------------------------------------------------
(* Properties of the round trip through dumpMinified and Load (Spec).      *)

\* C1 -- Round trip: for every value V built through the public API,
\* JSON::Load( V.dumpMinified(), ok ) sets ok = true and returns a value
\* structurally equal to V; V may be a top-level scalar.
C1_RoundTrip ==
    op.name = "Load" =>
        /\ out.kind = "value"
        /\ out.ok
        /\ out.val = value

\* C2 -- Idempotence of serialisation: for every value V built through the
\* public API, dumpMinified( Load( dumpMinified( V ) ) ) is the text
\* dumpMinified( V ), character for character.
C2_Idempotence ==
    op.name = "Load" =>
        /\ out.kind = "value"
        /\ dumpMinified(out.val) = text

---------------------------------------------------------------------------
(* Properties of Load on malformed texts (SpecLoad).                       *)

RECURSIVE SkipSpace(_)
SkipSpace(t) == IF t # <<>> /\ isspace(Head(t)) THEN SkipSpace(Tail(t)) ELSE t

StartsWith(t, prefix) ==
    Len(t) >= Len(prefix) /\ SubSeq(t, 1, Len(prefix)) = prefix

\* t without its first n characters
Drop(t, n) == SubSeq(t, n + 1, Len(t))

\* the text opens an array and holds no ']' at all
UnterminatedArray(t) ==
    /\ StartsWith(SkipSpace(t), <<"[">>)
    /\ \A i \in DOMAIN t : t[i] # "]"

\* C3 -- Unterminated array safety: for every text that opens an array and
\* ends before the closing ']', Load sets ok = false and never reads the
\* text at an index beyond the end of its buffer (the terminator at index
\* size() is the last character of the buffer).
C3_UnterminatedArray ==
    op.name = "Load" /\ UnterminatedArray(text) =>
        /\ out.kind = "value" => ~out.ok
        /\ out.hi <= Len(text)

EscapeSet == {QUOTE, BSLASH, "/", "b", "f", "n", "r", "t", "u"}

\* a backslash followed by a character outside the escape set (no text of
\* Texts holds an escaped backslash)
InvalidEscape(t) ==
    \E i \in DOMAIN t : t[i] = BSLASH /\ i < Len(t) /\ t[i + 1] \notin EscapeSet

NumberChar(c) == isdigit(c) \/ c = "-" \/ c = "."

\* t[i..j] is a run of number characters that starts a number, ends at a
\* delimiter, and holds a second '.' or a '-' after its first character
MalformedRun(t, i, j) ==
    /\ i = 1 \/ ~NumberChar(t[i - 1])
    /\ isdigit(t[i]) \/ t[i] = "-"
    /\ \A k \in i..j : NumberChar(t[k])
    /\ j < Len(t) /\ IsDelimiter(t[j + 1])
    /\ \/ \E k \in (i + 1)..j : t[k] = "-"
       \/ Cardinality({k \in i..j : t[k] = "."}) >= 2

MalformedNumber(t) ==
    \E i \in DOMAIN t : \E j \in i..Len(t) : MalformedRun(t, i, j)

\* the text begins like true, false or null and is none of them
MalformedLiteral(t) ==
    /\ SkipSpace(t) # <<>>
    /\ Head(SkipSpace(t)) \in {"t", "f", "n"}
    /\ ~StartsWith(SkipSpace(t), <<"t", "r", "u", "e">>)
    /\ ~StartsWith(SkipSpace(t), <<"f", "a", "l", "s", "e">>)
    /\ ~StartsWith(SkipSpace(t), <<"n", "u", "l", "l">>)

UnrecognisedLeading(t) ==
    \/ SkipSpace(t) = <<>>
    \/ Head(SkipSpace(t)) \notin {"[", "{", QUOTE, "t", "f", "n", "-"} \cup Digit

\* after open and the string "k", the text has something other than one
\* of the characters next
MissingAfterK(t, open, next) ==
    /\ StartsWith(SkipSpace(t), <<open>>)
    /\ StartsWith(SkipSpace(Drop(SkipSpace(t), 1)), <<QUOTE, "k", QUOTE>>)
    /\ ~\E c \in next :
          StartsWith(SkipSpace(Drop(SkipSpace(Drop(SkipSpace(t), 1)), 3)), <<c>>)

MissingColon(t) == MissingAfterK(t, "{", {":"})

MissingComma(t) == MissingAfterK(t, "[", {",", "]"})

StructuralViolation(t) ==
    \/ MissingColon(t)
    \/ MissingComma(t)
    \/ InvalidEscape(t)
    \/ MalformedLiteral(t)
    \/ MalformedNumber(t)
    \/ UnrecognisedLeading(t)

\* C4 -- Every structural violation sets the failure flag: for a text with
\* a missing ':' after a key, a missing ',' or closing bracket, a backslash
\* before a character outside the escape set, a malformed literal, a
\* malformed number before a delimiter or an unrecognised leading
\* character, Load does not return with ok = true.
C4_ViolationSetsFlag ==
    op.name = "Load" /\ StructuralViolation(text) =>
        ~(out.kind = "value" /\ out.ok)

\* C5 -- Parsing never fails through an exception: for every text, no
\* exception leaves Load.
C5_NoException ==
    op.name = "Load" =>
        ~(/\ out.kind = "exception"
          /\ out.what \in {"std::invalid_argument", "std::out_of_range"})

---------------------------------------------------------------------------
(* Properties of the accessors (Spec).                                     *)

\* C6 -- Const keyed lookup fails loudly on a missing key: for every
\* Object v and key k not in v, the const v.at( k ) ends in an error of
\* its own (std::out_of_range leaves the call: no Null value comes back)
\* and v is unchanged, no key created.
C6_AtKeyMissing ==
    op.name = "at_key" /\ pre.Type = "Object" /\ op.key \notin DOMAIN pre.Map =>
        /\ out = Thrown("std::out_of_range")
        /\ value = pre

C6_Witness ==
    /\ op.name = "at_key"
    /\ pre.Type = "Object"
    /\ pre.Map # EmptyMap
    /\ op.key \notin DOMAIN pre.Map

\* C7 -- Const indexed lookup is bounds-checked: for every Array v of
\* length n and index i >= n, the const v.at( i ) ends in an error
\* (std::out_of_range leaves the call) and reads no element, and v is
\* unchanged, no padding added.
C7_AtIndexBeyond ==
    op.name = "at_index" /\ pre.Type = "Array" /\ uge(op.index, Len(pre.List)) =>
        /\ out = Thrown("std::out_of_range")
        /\ value = pre

C7_Witness ==
    /\ op.name = "at_index"
    /\ pre.Type = "Array"
    /\ pre.List # <<>>
    /\ uge(op.index, Len(pre.List))

\* what a chain of keyed accesses makes of a Null value
RECURSIVE Vivified(_)
Vivified(path) ==
    IF path = <<>> THEN Null
    ELSE Object([k \in {Head(path).key} |-> Vivified(Tail(path))])

AllKeys(path) == \A i \in DOMAIN path : IsKey(path[i])

\* C8 -- Auto-vivification: from a Null value, keyed access along the keys
\* k1, ..., kn makes every node on the path an Object holding exactly the
\* next key, the last slot Null; value["a"]["b"] on a Null value dumps as
\* {"a":{"b":null}}.
C8_AutoVivification ==
    stmt = Null /\ op.name = "subscript_key" /\ AllKeys(ref) =>
        /\ value = Vivified(ref)
        /\ ref = <<Key(<<"a">>), Key(<<"b">>)>> =>
              dumpMinified(value) =
                  <<"{", QUOTE, "a", QUOTE, ":", "{", QUOTE, "b", QUOTE, ":",
                    "n", "u", "l", "l", "}", "}">>

C8_Witness ==
    /\ stmt = Null
    /\ op.name = "subscript_key"
    /\ ref = <<Key(<<"a">>), Key(<<"b">>)>>

\* the Array l grown to hold index: old elements kept, new slots Null,
\* length index + 1 (no array of the model has 2^31 elements)
Padded(l, old, index) ==
    /\ index >= 0
    /\ Len(l) = index + 1
    /\ \A j \in 1..Len(old) : l[j] = old[j]
    /\ \A j \in (Len(old) + 1)..Len(l) : l[j] = Null

\* C9 -- Array padding: value[i] on an Array of length n with i >= n grows
\* the array to length exactly i + 1, the new slots Null and the old
\* elements unchanged; on a Null value, value[3] gives an Array of length 4
\* whose indices 0, 1 and 2 are Null.
C9_ArrayPadding ==
    /\ op.name = "subscript_index" /\ pre.Type = "Array"
            /\ uge(op.index, Len(pre.List)) =>
          /\ Deref(value, op.at).Type = "Array"
          /\ Padded(Deref(value, op.at).List, pre.List, op.index)
    /\ op.name = "subscript_index" /\ pre = Null /\ op.index = 3 =>
          /\ Deref(value, op.at).Type = "Array"
          /\ Padded(Deref(value, op.at).List, <<>>, 3)

---------------------------------------------------------------------------
(* Properties of Load on object texts with repeated keys (SpecObject).     *)

\* the last member of ms with key k
RECURSIVE LastOf(_, _)
LastOf(ms, k) ==
    IF ms[Len(ms)].key = k THEN ms[Len(ms)].val
    ELSE LastOf(SubSeq(ms, 1, Len(ms) - 1), k)

KeysOf(ms) == { ms[i].key : i \in DOMAIN ms }

\* C10 -- Duplicate keys resolve last-write-wins: Load of an object text in
\* which a key occurs several times gives an Object with exactly one entry
\* for that key, holding the value of the last occurrence, with ok = true.
C10_LastWriteWins ==
    op.name = "Load" =>
        /\ out.kind = "value"
        /\ out.ok
        /\ out.val.Type = "Object"
        /\ DOMAIN out.val.Map = KeysOf(members)
        /\ \A k \in KeysOf(members) : out.val.Map[k] = LastOf(members, k)

C10_Witness ==
    /\ op.name = "Load"
    /\ \E i \in DOMAIN members : \E j \in DOMAIN members :
          /\ i < j
          /\ members[i].key = members[j].key
          /\ members[i].val # members[j].val
          /\ \A n \in (j + 1)..Len(members) : members[n].key # members[j].key

---------------------------------------------------------------------------
(* The program converting a value with ToInt (SpecConvert).                *)

\* the value of a double cut towards zero, as its conversion to long long
Truncated(f) ==
    IF f.exp10 >= 0 THEN f.mant * (10 ^ f.exp10)
    ELSE Signed(f.mant < 0, Abs(f.mant) \div (10 ^ (-f.exp10)))

\* what a conversion gives: the returned value and the flag
Converted(val, ok) == [kind |-> "value", val |-> val, ok |-> ok]

from_chars_digits(negative, d) ==
    IF d = <<>> THEN Converted(0, FALSE)
    ELSE IF ~FitsLong(StripZeros(d), negative) THEN Converted(0, FALSE)
    ELSE Converted(Signed(negative, DigitsValue(d, 0)), TRUE)

\* std::from_chars( data, data + size, parsed ) and the test of result.ec:
\* an optional '-' and the digits that follow it, whatever comes after
from_chars(s) == from_chars_digits(Negative(s), DigitRun(Unsigned(s)))

\* long long ToInt( bool &ok ) const
ToInt(v) ==
    CASE v.Type = "Integral" -> Converted(v.Int, TRUE)
      [] v.Type = "Boolean"  -> Converted(IF v.Bool THEN 1 ELSE 0, TRUE)
      [] v.Type = "Floating" -> Converted(Truncated(v.Float), TRUE)
      [] v.Type = "String"   -> from_chars(v.String)
      [] OTHER               -> Converted(0, FALSE)

\* the characters of the strings the program converts
ConvertChars == {"4", "2", "-", "+", ".", "a"}

ConvertValues ==
    { String(s) : s \in SeqsUpTo(ConvertChars, MaxChars) }
        \cup { Null, Boolean(TRUE), Boolean(FALSE), Integral(-3), Integral(42),
               Floating([mant |-> 15, exp10 |-> -1]),
               Floating([mant |-> -15, exp10 |-> -1]),
               Floating([mant |-> 2, exp10 |-> 1]),
               Array(<<Integral(42)>>),
               Object([k \in {<<"a">>} |-> Integral(42)]) }

InitConvert ==
    /\ value \in ConvertValues
    /\ ref = <<>>
    /\ stmt = value
    /\ pre = value
    /\ op = NoOp
    /\ out = NoCall
    /\ members = <<>>
    /\ text = <<>>
    /\ beyond = <<>>
    /\ BesideJson

\* n = value.ToInt( ok )
ToIntCall ==
    /\ op = NoOp
    /\ out' = ToInt(value)
    /\ op' = [NoOp EXCEPT !.name = "ToInt"]
    /\ UNCHANGED <<value, ref, stmt, pre, members, text, beyond>>
    /\ UNCHANGED beside_json

NextConvert == ToIntCall

SpecConvert == InitConvert /\ [][NextConvert]_vars

\* the text is an optional '-' and one or more digits
DecimalInteger(s) ==
    /\ Unsigned(s) # <<>>
    /\ DigitRun(Unsigned(s)) = Unsigned(s)

\* the text holds nothing but digits, signs and points
NumericText(s) == \A i \in DOMAIN s : isdigit(s[i]) \/ s[i] \in {"-", "+", "."}

\* C11 -- ToInt coercion: ToInt( ok ) gives the payload and true for
\* Integral, 0/1 and true for Boolean, the truncated value and true for
\* Floating, ( n, true ) for a String whose text is the decimal integer n,
\* ( 0, false ) for a String whose text is not numeric and for Null, Array
\* and Object; the value is not modified.
C11_ToInt ==
    op.name = "ToInt" =>
        /\ value = pre
        /\ value.Type = "Integral" => out = Converted(value.Int, TRUE)
        /\ value.Type = "Boolean" =>
              out = Converted(IF value.Bool THEN 1 ELSE 0, TRUE)
        /\ value.Type = "Floating" => out = Converted(Truncated(value.Float), TRUE)
        /\ value.Type = "String" /\ DecimalInteger(value.String) =>
              out = Converted(Signed(Negative(value.String),
                                     DigitsValue(Unsigned(value.String), 0)), TRUE)
        /\ value.Type = "String" /\ ~NumericText(value.String) =>
              out = Converted(0, FALSE)
        /\ value.Type \in {"Null", "Array", "Object"} => out = Converted(0, FALSE)

---------------------------------------------------------------------------
(* The program handing Load an object text with an integer, an array of    *)
(* integers and a string (SpecDocument).                                   *)

\* the members "a": integer, "b": [integers], "c": string
DocumentMembers ==
    { << [key |-> <<"a">>, val |-> Integral(i)],
         [key |-> <<"b">>, val |-> Array(l)],
         [key |-> <<"c">>, val |-> String(s)] >> :
        i \in {1, -3},
        l \in SeqsUpTo({Integral(1), Integral(2), Integral(3)}, MaxElements),
        s \in {<<"x">>, <<>>, <<"a", QUOTE>>} }

InitDocument == \E ms \in DocumentMembers : Loading(ms, ObjectText(ms))

NextDocument == LoadText

SpecDocument == InitDocument /\ [][NextDocument]_vars

\* C12 -- End-to-end parse: Load of a well-formed object text whose
\* members are an integer, an array of integers and a string gives
\* ok = true and an Object in which every member has the tag and value
\* written in the text, array elements in source order, and hasKey of a
\* key that is not in the text is false.
C12_EndToEnd ==
    op.name = "Load" =>
        /\ out.kind = "value"
        /\ out.ok
        /\ out.val.Type = "Object"
        /\ DOMAIN out.val.Map = KeysOf(members)
        /\ \A i \in DOMAIN members : out.val.Map[members[i].key] = members[i].val
        /\ \A k \in {<<"z">>, <<>>, <<"a", "b">>} : ~hasKey(out.val, k)

C12_Witness ==
    /\ op.name = "Load"
    /\ text = <<"{", QUOTE, "a", QUOTE, ":", "1", ",",
                QUOTE, "b", QUOTE, ":", "[", "1", ",", "2", ",", "3", "]", ",",
                QUOTE, "c", QUOTE, ":", QUOTE, "x", QUOTE, "}">>
    /\ out.val.Map[<<"b">>] = Array(<<Integral(1), Integral(2), Integral(3)>>)

---------------------------------------------------------------------------
(* The program appending an argument pack to one value (SpecAppend).       *)

\* void append( T arg, U... args ): append( arg ); append( args... );
RECURSIVE append_args(_, _)
append_args(v, args) ==
    IF Len(args) = 1 THEN append(v, args[1])
    ELSE append_args(append(v, args[1]), Tail(args))

AppendElements == {Integral(1), String(<<"x">>)}

AppendTargets ==
    {Array(l) : l \in SeqsUpTo(AppendElements, MaxElements)}
        \cup {Null, Boolean(TRUE), Integral(-3), String(<<"x">>),
              Floating([mant |-> 15, exp10 |-> -1]),
              Object([k \in {<<"a">>} |-> Integral(1)])}

ArgPacks == SeqsUpTo(Args \cup {Array(<<>>)}, MaxArgs) \ {<<>>}

InitAppend ==
    /\ value \in AppendTargets
    /\ ref = <<>>
    /\ stmt = value
    /\ pre = value
    /\ op = NoOp
    /\ out = NoCall
    /\ members = <<>>
    /\ text = <<>>
    /\ beyond = <<>>
    /\ BesideJson

\* value.append( a1, ..., an ); op.arg holds the pack as a list
AppendCall(args) ==
    /\ op = NoOp
    /\ value' = append_args(value, args)
    /\ op' = [NoOp EXCEPT !.name = "append", !.arg = Array(args)]
    /\ UNCHANGED <<ref, stmt, pre, out, members, text, beyond>>
    /\ UNCHANGED beside_json

NextAppend == \E args \in ArgPacks : AppendCall(args)

SpecAppend == InitAppend /\ [][NextAppend]_vars

\* C13 -- append: after v.append(a1, ..., an) an Array v with elements
\* e1..em is the Array e1..em, a1..an (the elements it had are kept, the
\* arguments follow in argument order); a value of any other tag becomes the
\* Array a1..an, whose first element is the first appended value.
C13_Append ==
    op.name = "append" =>
        IF pre.Type = "Array"
        THEN value = Array(pre.List \o op.arg.List)
        ELSE /\ value = Array(op.arg.List)
             /\ value.List[1] = op.arg.List[1]

C13_Witness ==
    /\ op.name = "append"
    /\ pre.Type = "Array"
    /\ Len(pre.List) >= 2
    /\ Len(op.arg.List) >= 2
    /\ op.arg.List[1] # op.arg.List[2]

---------------------------------------------------------------------------
(* JSON objects in memory: an object is [Type, Internal], and Internal of  *)
(* an Object, an Array or a String is the address new gave its payload.    *)

NullCell == [Type |-> "Null", Internal |-> 0]

\* a name whose object is not constructed, or destroyed
Undeclared == [Type |-> "Undeclared", Internal |-> 0]

Owns(cell) == cell.Type \in {"Object", "Array", "String"}

Placed(h, cell) == [heap |-> h, cell |-> cell]

\* new map<string,JSON>( ... ), new deque<JSON>( ... ), new string( ... )
new(h, type, payload) ==
    Placed(Append(h, [payload |-> payload, released |-> 0]),
           [Type |-> type, Internal |-> Len(h) + 1])

\* the JSON objects a container holds, in its order
Cells(type, payload) ==
    CASE type = "Array"  -> payload
      [] type = "Object" -> [i \in 1..Cardinality(DOMAIN payload) |->
                                payload[SortKeys(DOMAIN payload)[i]]]
      [] OTHER           -> <<>>

RECURSIVE delete(_, _, _)
RECURSIVE destroy_cells(_, _)

\* ~JSON(): delete the payload the tag names
destructor(h, cell) ==
    IF Owns(cell) THEN delete(h, cell.Type, cell.Internal) ELSE h

\* delete p: the container destroys its elements, the storage is released;
\* a delete of released storage is counted, its elements are gone
delete(h, type, addr) ==
    IF addr = 0 THEN h
    ELSE IF h[addr].released > 0 THEN [h EXCEPT ![addr].released = @ + 1]
    ELSE [destroy_cells(h, Cells(type, h[addr].payload))
             EXCEPT ![addr].released = @ + 1]

destroy_cells(h, cells) ==
    IF cells = <<>> THEN h
    ELSE destroy_cells(destructor(h, Head(cells)), Tail(cells))

ClearInternal(h, cell) ==
    IF Owns(cell) THEN delete(h, cell.Type, cell.Internal) ELSE h

\* the container built from copies of cells
copy_container(r, type, keys) ==
    IF type = "Array" THEN new(r.heap, "Array", r.cells)
    ELSE new(r.heap, "Object",
             [k \in {keys[i] : i \in DOMAIN keys} |->
                 r.cells[CHOOSE i \in DOMAIN keys : keys[i] = k]])

KeysIn(type, payload) ==
    IF type = "Object" THEN SortKeys(DOMAIN payload) ELSE <<>>

\* a copy that takes the other object's pointer
shallow_copy(h, other) == Placed(h, other)

RECURSIVE copy_construct(_, _)
RECURSIVE copy_cells(_, _, _)

copy_next(p, rest, done) == copy_cells(p.heap, rest, Append(done, p.cell))

\* the elements of a container, copy-constructed one by one
copy_cells(h, cells, done) ==
    IF cells = <<>> THEN [heap |-> h, cells |-> done]
    ELSE copy_next(copy_construct(h, Head(cells)), Tail(cells), done)

\* JSON( const JSON &other )
copy_construct(h, other) ==
    CASE other.Type = "String" -> new(h, "String", h[other.Internal].payload)
      [] other.Type \in {"Array", "Object"} ->
            copy_container(
                copy_cells(h, Cells(other.Type, h[other.Internal].payload), <<>>),
                other.Type, KeysIn(other.Type, h[other.Internal].payload))
      [] OTHER -> Placed(h, other)

\* JSON& operator=( const JSON &other )
copy_assign(h, this, other, same) ==
    IF same THEN Placed(h, this)
    ELSE copy_construct(ClearInternal(h, this), other)

Moved(h, this, other) == [heap |-> h, cell |-> this, other |-> other]

\* JSON( JSON&& other )
move_construct(h, other) == Moved(h, other, NullCell)

\* a move assignment that leaves the other object as it was
move_assign_keeping(h, this, other, same) == Moved(ClearInternal(h, this), other, other)

\* JSON& operator=( JSON&& other ); the object moved to itself ends Null
move_assign_cell(h, this, other, same) ==
    IF same THEN Moved(ClearInternal(h, this), NullCell, NullCell)
    ELSE Moved(ClearInternal(h, this), other, NullCell)

RECURSIVE construct(_, _)
RECURSIVE construct_cells(_, _, _)

construct_next(p, rest, done) == construct_cells(p.heap, rest, Append(done, p.cell))

construct_cells(h, values, done) ==
    IF values = <<>> THEN [heap |-> h, cells |-> done]
    ELSE construct_next(construct(h, Head(values)), Tail(values), done)

\* the JSON object a value of the program's text builds
construct(h, v) ==
    CASE v.Type = "String"   -> new(h, "String", v.String)
      [] v.Type = "Array"    ->
            copy_container(construct_cells(h, v.List, <<>>), "Array", <<>>)
      [] v.Type = "Object"   ->
            copy_container(construct_cells(h, Cells("Object", v.Map), <<>>),
                           "Object", SortKeys(DOMAIN v.Map))
      [] v.Type = "Integral" -> Placed(h, [Type |-> "Integral", Internal |-> v.Int])
      [] OTHER               -> Placed(h, NullCell)

fresh(h, type) ==
    CASE type = "Array"    -> new(h, "Array", <<>>)
      [] type = "Object"   -> new(h, "Object", EmptyMap)
      [] type = "String"   -> new(h, "String", <<>>)
      [] type = "Integral" -> Placed(h, [Type |-> "Integral", Internal |-> 0])
      [] OTHER             -> Placed(h, NullCell)

\* void SetType( Class type )
set_type(h, cell, type) ==
    IF type = cell.Type THEN Placed(h, cell)
    ELSE fresh(ClearInternal(h, cell), type)

assign_int_typed(p, i) == Placed(p.heap, [p.cell EXCEPT !.Internal = i])

\* operator=( T i ): SetType( Class::Integral ); Internal.Int = i;
assign_int(h, cell, i) == assign_int_typed(set_type(h, cell, "Integral"), i)

assign_string_typed(p, s) ==
    Placed([p.heap EXCEPT ![p.cell.Internal].payload = s], p.cell)

\* operator=( T s ): SetType( Class::String ); *Internal.String = string( s );
assign_string(h, cell, s) == assign_string_typed(set_type(h, cell, "String"), s)

emplace_back(list, p) ==
    Placed([p.heap EXCEPT ![list.Internal].payload = Append(@, p.cell)], list)

append_typed(p, arg) == emplace_back(p.cell, construct(p.heap, arg))

\* void append( T arg ): SetType( Class::Array ); Internal.List->emplace_back( arg );
append_cell(h, cell, arg) == append_typed(set_type(h, cell, "Array"), arg)

front_assigned(list, p) ==
    Placed([p.heap EXCEPT ![list.Internal].payload[1] = p.cell], list)

resized(p) ==
    IF p.heap[p.cell.Internal].payload # <<>> THEN p
    ELSE Placed([p.heap EXCEPT ![p.cell.Internal].payload = <<NullCell>>], p.cell)

front_typed(p, i) ==
    front_assigned(p.cell, assign_int(p.heap, p.heap[p.cell.Internal].payload[1], i))

\* operator[]( 0 ) = i
assign_front(h, cell, i) == front_typed(resized(set_type(h, cell, "Array")), i)

RECURSIVE Dangles(_, _)
\* the object, or an object in it, points at released storage
Dangles(h, cell) ==
    /\ Owns(cell)
    /\ \/ h[cell.Internal].released > 0
       \/ \E i \in DOMAIN Cells(cell.Type, h[cell.Internal].payload) :
             Dangles(h, Cells(cell.Type, h[cell.Internal].payload)[i])

RECURSIVE View(_, _)
\* the value an object holds
View(h, cell) ==
    CASE cell.Type = "String"   -> String(h[cell.Internal].payload)
      [] cell.Type = "Array"    ->
            Array([i \in DOMAIN h[cell.Internal].payload |->
                      View(h, h[cell.Internal].payload[i])])
      [] cell.Type = "Object"   ->
            Object([k \in DOMAIN h[cell.Internal].payload |->
                      View(h, h[cell.Internal].payload[k])])
      [] cell.Type = "Integral" -> Integral(cell.Internal)
      [] OTHER                  -> Null

\* dumpMinified of an object in memory
Dumped(h, cell) ==
    IF cell = Undeclared THEN <<"undeclared">>
    ELSE IF Dangles(h, cell) THEN <<"dangling">>
    ELSE dumpMinified(View(h, cell))

RECURSIVE Reach(_, _)
\* the payloads reachable from an object
Reach(h, cell) ==
    IF ~Owns(cell) THEN {}
    ELSE IF h[cell.Internal].released > 0 THEN {cell.Internal}
    ELSE {cell.Internal} \cup
         UNION {Reach(h, Cells(cell.Type, h[cell.Internal].payload)[i]) :
                   i \in DOMAIN Cells(cell.Type, h[cell.Internal].payload)}

---------------------------------------------------------------------------
(* The program with two JSON objects a and b that it copies, moves,        *)
(* mutates and destroys (SpecCopy).                                        *)

Names == {"a", "b"}

Samples ==
    {Null, String(<<"x">>),
     Array(<<String(<<"x">>), Integral(1)>>),
     Object([k \in {<<"k">>} |-> Array(<<Integral(1)>>)])}

NoJson ==
    /\ value = Null
    /\ ref = <<>>
    /\ stmt = Null
    /\ pre = Null
    /\ op = NoOp
    /\ out = NoCall
    /\ members = <<>>
    /\ text = <<>>
    /\ beyond = <<>>

BesideMemory == NoJson /\ NoThreads

Declared(name) == objs[name] # Undeclared

declare_b(p, vb) ==
    IF vb = Undeclared THEN Placed(p.heap, [a |-> p.cell, b |-> Undeclared])
    ELSE LET q == construct(p.heap, vb)
         IN  Placed(q.heap, [a |-> p.cell, b |-> q.cell])

\* JSON a = ...; JSON b = ...;  or b not yet declared
InitCopy ==
    /\ \E va \in Samples : \E vb \in Samples \cup {Undeclared} :
          /\ objs = declare_b(construct(<<>>, va), vb).cell
          /\ heap = declare_b(construct(<<>>, va), vb).heap
    /\ log = <<>>
    /\ BesideMemory

\* the statements run so far, the ends of scopes apart
Steps == Cardinality({i \in DOMAIN log : log[i].name # "destroy"})

\* one statement on the object `to`, from the object `from`; the scopes of
\* the objects end after the last statement
Statement(name, to, from, h, os) ==
    /\ name = "destroy" \/ (Steps < MaxSteps /\ Steps = Len(log))
    /\ heap' = h
    /\ objs' = os
    /\ log' = Append(log, [name |-> name, to |-> to, from |-> from,
                           was |-> [x \in Names |-> Dumped(heap, objs[x])],
                           held |-> Reach(heap, objs[to])])
    /\ UNCHANGED beside_memory

Written(name, to, from, p) ==
    Statement(name, to, from, p.heap, [objs EXCEPT ![to] = p.cell])

Taken(name, to, from, p) ==
    Statement(name, to, from, p.heap,
              [[objs EXCEPT ![from] = p.other] EXCEPT ![to] = p.cell])

\* JSON to( from );
CopyConstruct(to, from) ==
    /\ to # from /\ ~Declared(to) /\ Declared(from)
    /\ Written("copy_construct", to, from, copy_construct(heap, objs[from]))

\* to = from;
CopyAssign(to, from) ==
    /\ Declared(to) /\ Declared(from)
    /\ Written("copy_assign", to, from,
               copy_assign(heap, objs[to], objs[from], to = from))

\* JSON to( std::move( from ) );
MoveConstruct(to, from) ==
    /\ to # from /\ ~Declared(to) /\ Declared(from)
    /\ Taken("move_construct", to, from, move_construct(heap, objs[from]))

\* to = std::move( from );
MoveAssign(to, from) ==
    /\ Declared(to) /\ Declared(from)
    /\ Taken("move_assign", to, from,
             move_assign_cell(heap, objs[to], objs[from], to = from))

\* to = 7;
AssignInt(to) ==
    /\ Declared(to)
    /\ Written("assign_int", to, to, assign_int(heap, objs[to], 7))

\* to = "y";
AssignString(to) ==
    /\ Declared(to)
    /\ Written("assign_string", to, to, assign_string(heap, objs[to], <<"y">>))

\* to.append( arg );
AppendTo(to) ==
    /\ Declared(to)
    /\ Written("append", to, to, append_cell(heap, objs[to], String(<<"y">>)))

\* to[0] = 7;
AssignFront(to) ==
    /\ Declared(to)
    /\ Written("assign_front", to, to, assign_front(heap, objs[to], 7))

\* the scope of `to` ends
Destroy(to) ==
    /\ Declared(to)
    /\ Statement("destroy", to, to, destructor(heap, objs[to]),
                 [objs EXCEPT ![to] = Undeclared])

NextCopy ==
    \E to \in Names :
        \/ \E from \in Names :
              \/ CopyConstruct(to, from)
              \/ CopyAssign(to, from)
              \/ MoveConstruct(to, from)
              \/ MoveAssign(to, from)
        \/ AssignInt(to)
        \/ AssignString(to)
        \/ AppendTo(to)
        \/ AssignFront(to)
        \/ Destroy(to)

SpecCopy == InitCopy /\ [][NextCopy]_vars


Copies == {"copy_construct", "copy_assign"}

Moves == {"move_construct", "move_assign"}

Mutations == {"assign_int", "assign_string", "append", "assign_front"}

LastStatement == log[Len(log)]

\* statement i copied one object to another, and the program has only
\* mutated the two since
CopiedAt(i) ==
    /\ log[i].name \in Copies
    /\ log[i].to # log[i].from
    /\ \A j \in DOMAIN log : j > i => log[j].name \in Mutations

\* C14 -- Copies are deep and independent: once b is copy-constructed or
\* copy-assigned from a, every mutation of one of the two leaves
\* dumpMinified of the other as it was, and no String, Array or Object
\* payload is reachable from both.
C14_DeepCopies ==
    \A i \in DOMAIN log :
        CopiedAt(i) =>
            /\ Reach(heap, objs["a"]) \cap Reach(heap, objs["b"]) = {}
            /\ i < Len(log) =>
                  \A y \in Names \ {LastStatement.to} :
                      Dumped(heap, objs[y]) = LastStatement.was[y]

C14_Witness ==
    /\ Len(log) = 2
    /\ log[1].name = "copy_assign" /\ log[1].to = "b" /\ log[1].from = "a"
    /\ log[2].name = "assign_front" /\ log[2].to = "b"
    /\ objs["a"].Type = "Array"
    /\ Dumped(heap, objs["a"]) = log[1].was["a"]
    /\ Dumped(heap, objs["b"]) # Dumped(heap, objs["a"])

\* C15 -- Move transfers and resets: after b is move-constructed or
\* move-assigned from a distinct object a, b holds the value a held before,
\* a has tag Null, and the payload b held before the assignment is released
\* exactly once: a does not reach it, and no payload is released twice or
\* left unreleased when a and b are destroyed afterwards.
C15_MoveTransfers ==
    /\ (log # <<>> /\ LastStatement.name \in Moves
            /\ LastStatement.to # LastStatement.from) =>
          /\ Dumped(heap, objs[LastStatement.to])
                = LastStatement.was[LastStatement.from]
          /\ objs[LastStatement.from].Type = "Null"
          /\ \A addr \in LastStatement.held : heap[addr].released = 1
    /\ (\E i \in DOMAIN log : log[i].name \in Moves /\ log[i].to # log[i].from) =>
          /\ \A addr \in DOMAIN heap : heap[addr].released <= 1
          /\ (\A x \in Names : ~Declared(x)) =>
                \A addr \in DOMAIN heap : heap[addr].released = 1

C15_Witness ==
    /\ Len(log) = 3
    /\ log[1].name = "move_assign" /\ log[1].to = "b" /\ log[1].from = "a"
    /\ Cardinality(log[1].held) >= 2
    /\ log[1].was["a"] = <<"[", QUOTE, "x", QUOTE, ",", "1", "]">>
    /\ log[2].name = "destroy"
    /\ log[3].name = "destroy"
    /\ \A addr \in DOMAIN heap : heap[addr].released = 1

---------------------------------------------------------------------------
(* The program handing Load the text of a value alone and followed by      *)
(* other bytes (SpecTrail).                                                *)

TrailValues ==
    {Null, Boolean(TRUE), Boolean(FALSE), Integral(5), Integral(-3),
     Floating([mant |-> 15, exp10 |-> -1]),
     String(<<"x">>), String(<<>>), Array(<<>>), Array(<<Integral(1)>>),
     Array(<<String(<<"x">>), Null>>),
     Object([k \in {<<"a">>} |-> Integral(1)])}

\* bytes that do not go on a number
Trails == SeqsUpTo({" ", "x", "]", ",", QUOTE}, MaxTrail)

InitTrail ==
    /\ value \in TrailValues
    /\ \E t \in Trails : text = dumpMinified(value) \o t
    /\ beyond \in Beyond
    /\ ref = <<>>
    /\ stmt = value
    /\ pre = Null
    /\ op = NoOp
    /\ out = NoCall
    /\ members = <<>>
    /\ BesideJson

\* alone = JSON::Load( v, ok ); trailed = JSON::Load( v + t, ok );
LoadTrailed ==
    /\ op = NoOp
    /\ pre' = Load(dumpMinified(value), beyond)
    /\ out' = Load(text, beyond)
    /\ op' = [NoOp EXCEPT !.name = "Load"]
    /\ UNCHANGED <<value, ref, stmt, members, text, beyond>>
    /\ UNCHANGED beside_json

NextTrail == LoadTrailed

SpecTrail == InitTrail /\ [][NextTrail]_vars

\* C16 -- Trailing bytes are ignored: for a text v that is one complete
\* value and any bytes t after it, Load(v followed by t) gives the same
\* value as Load(v), both with ok = true; the bytes after the value cause no
\* failure.
C16_TrailingIgnored ==
    op.name = "Load" =>
        /\ pre.kind = "value" /\ pre.ok
        /\ out.kind = "value" /\ out.ok
        /\ out.val = pre.val

---------------------------------------------------------------------------
(* Base64::Encode and Base64::Decode.  A char is -128..127; a size_t below *)
(* zero stands for the value 2^64 less than it that the subtraction wraps  *)
(* to.                                                                     *)

sEncodingTable ==
    <<"A", "B", "C", "D", "E", "F", "G", "H", "I", "J", "K", "L", "M", "N", "O", "P",
      "Q", "R", "S", "T", "U", "V", "W", "X", "Y", "Z", "a", "b", "c", "d", "e", "f",
      "g", "h", "i", "j", "k", "l", "m", "n", "o", "p", "q", "r", "s", "t", "u", "v",
      "w", "x", "y", "z", "0", "1", "2", "3", "4", "5", "6", "7", "8", "9", "+", "/">>

\* kDecodingTable[ch]: the place of ch in the alphabet, 64 for any other char
kDecodingTable(ch) ==
    IF \E k \in DOMAIN sEncodingTable : sEncodingTable[k] = ch
    THEN (CHOOSE k \in DOMAIN sEncodingTable : sEncodingTable[k] = ch) - 1
    ELSE 64

\* i < n on size_t
size_less(i, n) == IF (i < 0) = (n < 0) THEN i < n ELSE n < 0

\* the vector's storage and the bytes the build keeps mapped after it
Storage(data, g) == [data |-> data, g |-> g]

Readable(m, i) == i < Len(m.data) + Len(m.g)

\* data[i]
data_at(m, i) ==
    IF i < Len(m.data) THEN m.data[i + 1] ELSE m.g[i - Len(m.data) + 1]

\* sEncodingTable[(data[i] >> 2) & 0x3F]
first_char(x) == sEncodingTable[((x \div 4) % 64) + 1]

\* sEncodingTable[((data[i] & 0x3) << 4) | ((int) (data[i + 1] & 0xF0) >> 4)]
second_char(x, y) == sEncodingTable[((x % 4) * 16 + ((y % 256) \div 16)) + 1]

\* sEncodingTable[((data[i + 1] & 0xF) << 2) | ((int) (data[i + 2] & 0xC0) >> 6)]
third_char(y, z) == sEncodingTable[((y % 16) * 4 + ((z % 256) \div 64)) + 1]

\* sEncodingTable[data[i + 2] & 0x3F]
fourth_char(z) == sEncodingTable[(z % 64) + 1]

Encoding(i, ret, exc, hi) == [i |-> i, ret |-> ret, exc |-> exc, hi |-> hi]

encode_group(x, y, z) ==
    <<first_char(x), second_char(x, y), third_char(y, z), fourth_char(z)>>

\* for (i = 0; i < in_len - 2; i += 3): a read of an unmapped byte ends the
\* program
RECURSIVE encode_loop(_, _, _)
encode_loop(m, s, in_len) ==
    IF ~size_less(s.i, in_len - 2) THEN s
    ELSE IF ~Readable(m, s.i + 2)
    THEN Encoding(s.i, s.ret, "SIGSEGV",
                  IF Readable(m, s.i) THEN Len(m.data) + Len(m.g) ELSE s.i)
    ELSE encode_loop(m,
            Encoding(s.i + 3,
                     s.ret \o encode_group(data_at(m, s.i), data_at(m, s.i + 1),
                                           data_at(m, s.i + 2)),
                     s.exc, s.i + 2),
            in_len)

\* if (i < in_len) { ... }: the last one or two bytes and the padding
encode_rest(m, s, in_len) ==
    IF s.exc # "none" \/ ~(s.i < in_len) THEN s
    ELSE IF s.i = in_len - 1
    THEN Encoding(s.i,
                  s.ret \o <<first_char(data_at(m, s.i)),
                             second_char(data_at(m, s.i), 0), "=", "=">>,
                  s.exc, s.i)
    ELSE Encoding(s.i,
                  s.ret \o <<first_char(data_at(m, s.i)),
                             second_char(data_at(m, s.i), data_at(m, s.i + 1)),
                             third_char(data_at(m, s.i + 1), 0), "=">>,
                  s.exc, s.i + 1)

\* what Encode gives: the string, the highest index of data it read (hi) and
\* the number of chars it wrote through p (wrote) into ret( out_len, '\0' )
encode_return(s, out_len) ==
    IF s.exc # "none"
    THEN [kind |-> "exception", what |-> s.exc, hi |-> s.hi, wrote |-> Len(s.ret)]
    ELSE [kind |-> "value",
          val |-> [k \in 1..out_len |-> IF k <= Len(s.ret) THEN s.ret[k] ELSE NUL],
          hi |-> s.hi, wrote |-> Len(s.ret)]

\* std::string Encode(const std::vector<char>& data)
Encode(data, g) ==
    encode_return(
        encode_rest(Storage(data, g),
                    encode_loop(Storage(data, g), Encoding(0, <<>>, "none", -1),
                                Len(data)),
                    Len(data)),
        4 * ((Len(data) + 2) \div 3))

\* base64Data[i] == '=' ? 0 & i++ : kDecodingTable[static_cast<int>(base64Data[i++])]
sextet(ch) == IF ch = "=" THEN 0 ELSE kDecodingTable(ch)

\* (a << 3 * 6) + (b << 2 * 6) + (c << 1 * 6) + (d << 0 * 6)
triple_of(str, i) ==
    sextet(str[i + 1]) * (2 ^ 18) + sextet(str[i + 2]) * (2 ^ 12)
        + sextet(str[i + 3]) * (2 ^ 6) + sextet(str[i + 4])

\* (char) of a value 0..255
to_char(x) == IF x >= 128 THEN x - 256 ELSE x

\* if (j < out_len) out[j++] = (triple >> shift) & 0xFF;
put(vec, out_len, triple, shift) ==
    IF Len(vec) < out_len
    THEN Append(vec, to_char((triple \div (2 ^ shift)) % 256))
    ELSE vec

put_triple(vec, out_len, triple) ==
    put(put(put(vec, out_len, triple, 16), out_len, triple, 8), out_len, triple, 0)

\* for (size_t i = 0, j = 0; i < in_len;) { ... }
RECURSIVE decode_loop(_, _, _, _)
decode_loop(str, i, vec, out_len) ==
    IF ~(i < Len(str)) THEN vec
    ELSE decode_loop(str, i + 4, put_triple(vec, out_len, triple_of(str, i)), out_len)

\* out_len = in_len / 4 * 3, less one for each '=' at the end
decoded_len(str) ==
    (Len(str) \div 4) * 3
        - (IF str[Len(str)] = "=" THEN 1 ELSE 0)
        - (IF str[Len(str) - 1] = "=" THEN 1 ELSE 0)

\* std::vector<char> Decode(const std::string& base64Data); the empty
\* string has base64Data[in_len - 1] read outside the string
Decode(str) ==
    IF Len(str) % 4 # 0 THEN [kind |-> "value", val |-> <<>>]
    ELSE IF str = <<>> THEN [kind |-> "exception", what |-> "SIGSEGV"]
    ELSE [kind |-> "value",
          val |-> decode_loop(str, 0, <<>>, decoded_len(str))]

---------------------------------------------------------------------------
(* The program encoding a byte vector and decoding the string it got       *)
(* (SpecBase64); text holds the vector's bytes.                            *)

Bytes == {0, 77, -1, -128}

InitBase64 ==
    /\ text \in SeqsUpTo(Bytes, MaxBytes)
    /\ beyond \in SeqsUpTo({0, -1}, MaxBeyond)
    /\ value = Null
    /\ ref = <<>>
    /\ stmt = Null
    /\ pre = Null
    /\ op = NoOp
    /\ out = NoCall
    /\ members = <<>>
    /\ BesideJson

decoded(enc) ==
    IF enc.kind # "value" THEN enc
    ELSE [kind |-> Decode(enc.val).kind, val |-> enc.val, hi |-> enc.hi,
          wrote |-> enc.wrote, back |-> Decode(enc.val)]

\* back = Base64::Decode( Base64::Encode( data ) )
EncodeDecode ==
    /\ op = NoOp
    /\ out' = decoded(Encode(text, beyond))
    /\ op' = [NoOp EXCEPT !.name = "Encode"]
    /\ UNCHANGED <<value, ref, stmt, pre, members, text, beyond>>
    /\ UNCHANGED beside_json

NextBase64 == EncodeDecode

SpecBase64 == InitBase64 /\ [][NextBase64]_vars

\* C17 -- Base64 round-trip: for every byte sequence d of length n >= 0
\* (0 and 1 included) Encode(d) is a string of exactly 4*ceil(n/3)
\* characters, Decode(Encode(d)) is d, and neither function reads or writes
\* an index outside its input or output buffer.
C17_Base64RoundTrip ==
    op.name = "Encode" =>
        /\ out.kind = "value"
        /\ Len(out.val) = 4 * ((Len(text) + 2) \div 3)
        /\ out.back.val = text
        /\ out.hi < Len(text)
        /\ out.wrote <= Len(out.val)

---------------------------------------------------------------------------
(* Observable<T>: the program subscribing and unsubscribing observers and  *)
(* notifying them (SpecObservable).                                        *)

nullptr == "nullptr"

\* an observer that was destroyed before the program used its weak_ptr
Gone == "gone"

Observers == {"obs1", "obs2"}

\* std::weak_ptr::expired()
expired(obs) == obs = Gone

\* std::weak_ptr::lock()
lock(obs) == IF expired(obs) THEN nullptr ELSE obs

\* void subscribe(const std::weak_ptr< Observer<T> >& obs)
subscribe(list, obs) == IF ~expired(obs) THEN Append(list, obs) ELSE list

\* m_Observers.erase(m_Observers.begin() + i)
erase(list, i) == SubSeq(list, 1, i) \o SubSeq(list, i + 2, Len(list))

\* for(size_t i = 0; i < m_Observers.size(); i++) if( ... ) { erase; break; }
RECURSIVE unsubscribe_loop(_, _, _)
unsubscribe_loop(list, obs, i) ==
    IF ~(i < Len(list)) THEN list
    ELSE IF lock(list[i + 1]) = lock(obs) THEN erase(list, i)
    ELSE unsubscribe_loop(list, obs, i + 1)

\* void unsubscribe(const std::weak_ptr< Observer<T> >& obs)
unsubscribe(list, obs) == unsubscribe_loop(list, obs, 0)

\* void unsubscribeAll()
unsubscribeAll(list) == <<>>

\* void notify(): the observers whose update() is called, in order
notify(list) == [i \in DOMAIN list |-> lock(list[i])]

Called(name, obs) ==
    [name |-> name, obs |-> obs, before |-> m_Observers,
     unsubscribed |->
        CASE name = "unsubscribe" -> hist.unsubscribed \cup {obs}
          [] name = "subscribe"   -> hist.unsubscribed \ {obs}
          [] OTHER                -> hist.unsubscribed]

InitObservable ==
    /\ m_Observers = <<>>
    /\ updates = <<>>
    /\ hist = [name |-> "none", obs |-> nullptr, before |-> <<>>,
               unsubscribed |-> {}]
    /\ alive = {}
    /\ NoJson /\ NoMemory /\ NoSingleton /\ NoServer

Subscribe(obs) ==
    /\ Len(m_Observers) < MaxObservers
    /\ m_Observers' = subscribe(m_Observers, obs)
    /\ hist' = Called("subscribe", obs)
    /\ UNCHANGED updates
    /\ UNCHANGED beside_observable

Unsubscribe(obs) ==
    /\ m_Observers' = unsubscribe(m_Observers, obs)
    /\ hist' = Called("unsubscribe", obs)
    /\ UNCHANGED updates
    /\ UNCHANGED beside_observable

UnsubscribeAll ==
    /\ m_Observers' = unsubscribeAll(m_Observers)
    /\ hist' = Called("unsubscribeAll", nullptr)
    /\ UNCHANGED updates
    /\ UNCHANGED beside_observable

Notify ==
    /\ updates' = notify(m_Observers)
    /\ hist' = Called("notify", nullptr)
    /\ UNCHANGED m_Observers
    /\ UNCHANGED beside_observable

NextObservable ==
    \/ \E obs \in Observers \cup {Gone} :
          \/ Subscribe(obs)
          \/ Unsubscribe(obs)
    \/ UnsubscribeAll
    \/ Notify

SpecObservable == InitObservable /\ [][NextObservable]_vars

Without(list, obs) == SelectSeq(list, LAMBDA o : o # obs)

\* C18 -- Unsubscribe stops notifications: once unsubscribe(obs) has
\* returned (and obs was not subscribed again), notify() does not call
\* obs.update(), however often obs was subscribed before; unsubscribe(obs)
\* leaves the other observers subscribed, in their order.
C18_UnsubscribeStops ==
    /\ hist.name = "notify" =>
          \A i \in DOMAIN updates : updates[i] \notin hist.unsubscribed
    /\ hist.name = "unsubscribe" =>
          Without(m_Observers, hist.obs) = Without(hist.before, hist.obs)

---------------------------------------------------------------------------
(* Singleton<T>: two threads calling getInstance() and destroy()           *)
(* (SpecSingleton).  An instance is the number of its construction.        *)

Threads == {"t1", "t2"}

At(at, p) == [at |-> at, p |-> p]

InitSingleton ==
    /\ m_Instance = 0
    /\ instances = {}
    /\ pc = [t \in Threads |-> At("idle", 0)]
    /\ hist = [made |-> 0, returned |-> {}, crowded |-> FALSE]
    /\ NoJson /\ NoMemory /\ NoObservable
    /\ io = <<>>
    /\ server = <<>>
    /\ session = <<>>

\* getInstance(): if(m_Instance==nullptr)
Test(t) ==
    /\ pc[t].at = "idle"
    /\ \/ m_Instance # 0
       \/ hist.made + Cardinality({u \in Threads : pc[u].at = "new"}) < MaxInstances
    /\ pc' = [pc EXCEPT ![t] = At(IF m_Instance = 0 THEN "new" ELSE "get", 0)]
    /\ UNCHANGED <<m_Instance, instances, hist>>
    /\ UNCHANGED beside_singleton

\* new T{ std::forward<Args>(args)... }
New(t) ==
    /\ pc[t].at = "new"
    /\ instances' = instances \cup {hist.made + 1}
    /\ hist' = [hist EXCEPT !.made = @ + 1,
                            !.crowded = @ \/ instances # {}]
    /\ pc' = [pc EXCEPT ![t] = At("reset", hist.made + 1)]
    /\ UNCHANGED m_Instance
    /\ UNCHANGED beside_singleton

\* m_Instance.reset( p ): the pointer is stored, the old object deleted
Reset(t) ==
    /\ pc[t].at = "reset"
    /\ m_Instance' = pc[t].p
    /\ instances' = instances \ {m_Instance}
    /\ pc' = [pc EXCEPT ![t] = At("get", 0)]
    /\ UNCHANGED hist
    /\ UNCHANGED beside_singleton

\* return m_Instance.get();
Get(t) ==
    /\ pc[t].at = "get"
    /\ hist' = [hist EXCEPT !.returned = @ \cup {m_Instance}]
    /\ pc' = [pc EXCEPT ![t] = At("idle", 0)]
    /\ UNCHANGED <<m_Instance, instances>>
    /\ UNCHANGED beside_singleton

\* destroy(): m_Instance = nullptr;
DestroyInstance(t) ==
    /\ pc[t].at = "idle"
    /\ m_Instance' = 0
    /\ instances' = instances \ {m_Instance}
    /\ hist' = [hist EXCEPT !.returned = {}]
    /\ UNCHANGED pc
    /\ UNCHANGED beside_singleton

NextSingleton ==
    \E t \in Threads :
        \/ Test(t)
        \/ New(t)
        \/ Reset(t)
        \/ Get(t)
        \/ DestroyInstance(t)

SpecSingleton == InitSingleton /\ [][NextSingleton]_vars

\* C19 -- Singleton is instanced once: for any interleaving of
\* getInstance() and destroy() calls of two threads, at most one instance
\* of T exists at any time, T's constructor runs only when no instance
\* exists, and the getInstance() calls between two destroy() calls return
\* the same instance.
C19_InstancedOnce ==
    /\ Cardinality(instances) <= 1
    /\ ~hist.crowded
    /\ Cardinality(hist.returned) <= 1

---------------------------------------------------------------------------
(* HTTPServer with m_NumThreads worker threads running the io_context: it  *)
(* accepts connections, and its observer subscribes to each new session in *)
(* update(server) (SpecServer).  A session is the number of its accept.    *)

Accept == [op |-> "accept", sess |-> 0]

ReadOf(s) == [op |-> "read", sess |-> s]

Workers == 1..server.m_NumThreads

InitServer ==
    /\ \E n \in 1..MaxThreads :
          /\ server = [m_NumThreads |-> n, m_NewSession |-> 0]
          /\ pc = [w \in 1..n |-> At("idle", 0)]
    /\ io = [waiting |-> {Accept}, ready |-> {}]
    /\ m_Observers = <<>>
    /\ updates = <<>>
    /\ hist = [reads |-> <<>>, requests |-> <<>>]
    /\ session = <<>>
    /\ alive = {}
    /\ NoJson /\ NoMemory /\ NoSingleton

\* a client connects: the async_accept completes
Connect ==
    /\ Accept \in io.waiting
    /\ Len(m_Observers) < MaxSessions
    /\ io' = [waiting |-> io.waiting \ {Accept}, ready |-> io.ready \cup {Accept}]
    /\ UNCHANGED <<pc, server, m_Observers, updates, hist>>
    /\ UNCHANGED beside_server

\* a request arrives on session s: its async_read completes
Request(s) ==
    /\ ReadOf(s) \in io.waiting
    /\ hist.requests[s] < MaxRequests
    /\ io' = [waiting |-> io.waiting \ {ReadOf(s)},
              ready |-> io.ready \cup {ReadOf(s)}]
    /\ hist' = [hist EXCEPT !.requests[s] = @ + 1]
    /\ UNCHANGED <<pc, server, m_Observers, updates>>
    /\ UNCHANGED beside_server

\* m_Ioc.run() on thread w takes a ready handler
Run(w, handler, at) ==
    /\ pc[w].at = "idle"
    /\ handler \in io.ready
    /\ io' = [io EXCEPT !.ready = @ \ {handler}]
    /\ pc' = [pc EXCEPT ![w] = At(at, handler.sess)]
    /\ UNCHANGED <<server, m_Observers, updates, hist>>
    /\ UNCHANGED beside_server

RunAccept(w) == Run(w, Accept, "on_accept")

RunRead(w, s) == Run(w, ReadOf(s), "on_read")

\* on_accept: m_NewSession = std::make_shared<HTTPSession>( ... );
MakeSession(w) ==
    /\ pc[w].at = "on_accept"
    /\ server' = [server EXCEPT !.m_NewSession = Len(m_Observers) + 1]
    /\ m_Observers' = Append(m_Observers, <<>>)
    /\ updates' = Append(updates, <<>>)
    /\ hist' = [reads |-> Append(hist.reads, 0),
                requests |-> Append(hist.requests, 0)]
    /\ pc' = [pc EXCEPT ![w] = At("run", Len(m_Observers) + 1)]
    /\ UNCHANGED io
    /\ UNCHANGED beside_server

\* on_accept: m_NewSession->run(); the session's do_read() starts async_read
RunSession(w) ==
    /\ pc[w].at = "run"
    /\ io' = [io EXCEPT !.waiting = @ \cup {ReadOf(server.m_NewSession)}]
    /\ pc' = [pc EXCEPT ![w] = At("notify", pc[w].p)]
    /\ UNCHANGED <<server, m_Observers, updates, hist>>
    /\ UNCHANGED beside_server

\* on_accept: notify(); the observer's update(server) runs
\* serv->getSession()->subscribe(this->shared_from_this())
NotifyServer(w) ==
    /\ pc[w].at = "notify"
    /\ m_Observers' = [m_Observers EXCEPT ![server.m_NewSession] = subscribe(@, "obs1")]
    /\ pc' = [pc EXCEPT ![w] = At("do_accept", pc[w].p)]
    /\ UNCHANGED <<server, io, updates, hist>>
    /\ UNCHANGED beside_server

\* on_accept: do_accept();
DoAccept(w) ==
    /\ pc[w].at = "do_accept"
    /\ io' = [io EXCEPT !.waiting = @ \cup {Accept}]
    /\ pc' = [pc EXCEPT ![w] = At("idle", 0)]
    /\ UNCHANGED <<server, m_Observers, updates, hist>>
    /\ UNCHANGED beside_server

\* on_read: notify(); the session's observers get update(session)
NotifySession(w) ==
    /\ pc[w].at = "on_read"
    /\ updates' = [updates EXCEPT ![pc[w].p] = @ \o notify(m_Observers[pc[w].p])]
    /\ hist' = [hist EXCEPT !.reads[pc[w].p] = @ + 1]
    /\ pc' = [pc EXCEPT ![w] = At("write", pc[w].p)]
    /\ UNCHANGED <<server, io, m_Observers>>
    /\ UNCHANGED beside_server

\* on_read: async_write; on_write: do_read() starts the next async_read
Write(w) ==
    /\ pc[w].at = "write"
    /\ io' = [io EXCEPT !.waiting = @ \cup {ReadOf(pc[w].p)}]
    /\ pc' = [pc EXCEPT ![w] = At("idle", 0)]
    /\ UNCHANGED <<server, m_Observers, updates, hist>>
    /\ UNCHANGED beside_server

NextServer ==
    \/ Connect
    \/ \E s \in DOMAIN m_Observers : Request(s)
    \/ \E w \in Workers :
          \/ RunAccept(w)
          \/ \E s \in DOMAIN m_Observers : RunRead(w, s)
          \/ MakeSession(w)
          \/ RunSession(w)
          \/ NotifyServer(w)
          \/ DoAccept(w)
          \/ NotifySession(w)
          \/ Write(w)

SpecServer == InitServer /\ [][NextServer]_vars

\* a thread is in on_accept for session s and has not yet notified
Subscribing(s) ==
    \E w \in Workers : pc[w].at \in {"run", "notify"} /\ pc[w].p = s

\* C20 -- An observer that subscribes to a new session inside
\* update(server) is notified of every request read on that session: with
\* any number of worker threads no read completion of the session runs its
\* notify() before or while the observer subscribes.
C20_EveryRequestNotified ==
    \A s \in DOMAIN m_Observers :
        /\ Len(updates[s]) = hist.reads[s]
        /\ \A w \in Workers :
              (pc[w].at = "on_read" /\ pc[w].p = s) => ~Subscribing(s)

---------------------------------------------------------------------------
(* HTTPSession: one session from run() on, its handlers on the session's   *)
(* strand: on_read builds the default result, notifies the observers and   *)
(* starts the write; on_write starts the next read (SpecSession).          *)

MaxTarget == 3    \* characters of a request target

TargetChars == {"/", "."}

Verbs == {"get", "head", "post"}

Requests ==
    [method : Verbs, target : SeqsUpTo(TargetChars, MaxTarget),
     keep_alive : BOOLEAN]

\* m_Request = {}
NoRequest == [method |-> "unknown", target |-> <<>>, keep_alive |-> TRUE]

\* m_IndexFile
m_IndexFile == <<"i">>

\* what the file system answers for the path of a request
Disk == {"file", "missing", "error", "ExceptionBase", "exception"}

\* boost::system::error_code: "" is success
Success == ""

\* m_Result = {status, version}; set(server); set(content_type);
\* keep_alive(m_Request.keep_alive()); body().assign(msg); prepare_payload()
Response(status, body, req) ==
    [status |-> status, body |-> body, keep_alive |-> req.keep_alive]

\* m_Result.need_eof() of a result with a prepared payload
need_eof(res) == ~res.keep_alive

\* m_Result.clear(): the fields are gone (HTTP/1.1 without Connection)
clear(res) == [res EXCEPT !.keep_alive = TRUE]

\* m_Request.method() != http::verb::get && m_Request.method() != http::verb::head
unknown_method(req) == req.method # "get" /\ req.method # "head"

\* m_Request.target().find("..") != boost::beast::string_view::npos
find_dots(target) ==
    \E i \in 1..(Len(target) - 1) : target[i] = "." /\ target[i + 1] = "."

\* the request-target check without the search for ".."
illegal_target_start(req) ==
    req.target = <<>> \/ req.target[1] # "/"

\* m_Request.target().empty() || m_Request.target()[0] != '/' || find("..")
illegal_target(req) ==
    req.target = <<>> \/ req.target[1] # "/" \/ find_dots(req.target)

\* path = m_DocRoot; path += target; the index file of a directory
path_of(target, dir) ==
    IF target[Len(target)] = "/" THEN target \o m_IndexFile
    ELSE IF dir THEN target \o <<"/">> \o m_IndexFile
    ELSE target

\* the file lookup of on_read: exists, fEc, FileSystem::LoadFile
lookup(req, disk) ==
    CASE disk = "missing" -> Response(404, "not found", req)
      [] disk = "error"   -> Response(500, "An error occurred", req)
      [] disk = "file"    ->
            Response(200, IF req.method = "head" THEN "" ELSE "sfile", req)
      [] disk = "ExceptionBase" -> Response(500, "An error occurred", req)
      [] OTHER -> Response(500, "An unknown error occurred.", req)

\* FileSystem::LoadFile(path) was called
loads(disk) == disk \in {"file", "ExceptionBase", "exception"}

\* on_read, if(!ec): the default result and the paths looked up and loaded
on_read_ok(req, dir, disk) ==
    IF unknown_method(req)
      THEN [m_Result |-> Response(400, "Unknown HTTP-method", req),
            looked |-> <<>>, loaded |-> <<>>]
    ELSE IF illegal_target(req)
      THEN [m_Result |-> Response(400, "Illegal request-target", req),
            looked |-> <<>>, loaded |-> <<>>]
    ELSE [m_Result |-> lookup(req, disk),
          looked |-> <<path_of(req.target, dir)>>,
          loaded |-> IF loads(disk) THEN <<path_of(req.target, dir)>>
                     ELSE <<>>]

\* on_read, the last else: a read error other than end_of_stream
on_read_error(sess) ==
    Response(500, "An error occurred", sess.m_Request)

\* setResult that leaves the default result
setResult_dropped(sess, res) == sess

\* void setResult(const http::response<...> &res)
setResult(sess, res) == [sess EXCEPT !.m_Result = res]

\* HTTPSession::close(): what it starts, and m_Ec after it
close(sess, result) ==
    IF sess.m_Ec = Success
      THEN IF sess.m_SSL
             THEN [sess EXCEPT !.shut = "async_shutdown"]
             ELSE [sess EXCEPT !.shut = "shutdown_send", !.m_Ec = result]
      ELSE sess

\* do_read(): m_Request = {}; async_read (the socket is open)
do_read(sess) == [sess EXCEPT !.m_Request = NoRequest, !.at = "async_read"]

\* what an observer's update(session) does: nothing, or setResult(custom)
Answers ==
    {[set |-> FALSE, keep_alive |-> TRUE]}
       \cup [set : {TRUE}, keep_alive : BOOLEAN]

\* the custom result of the documented observer
Custom(answer) ==
    [status |-> 200, body |-> "Hello World :)", keep_alive |-> answer.keep_alive]

\* notify(): each observer's update(session), in order
RECURSIVE update_each(_, _, _)
update_each(sess, answers, i) ==
    IF i > Len(answers) THEN sess
    ELSE update_each(IF answers[i].set
                       THEN setResult(sess, Custom(answers[i]))
                       ELSE sess,
                     answers, i + 1)

\* the result the observers left: the last one set, or the default
RECURSIVE Held(_, _)
Held(default, answers) ==
    IF answers = <<>> THEN default
    ELSE IF answers[Len(answers)].set THEN Custom(answers[Len(answers)])
    ELSE Held(default, SubSeq(answers, 1, Len(answers) - 1))

NoCycle ==
    [read |-> "none", built |-> <<>>, looked |-> <<>>, loaded |-> <<>>,
     notified |-> 0, held |-> <<>>, written |-> <<>>, wrote |-> "none",
     started |-> 0]

InitSession ==
    /\ \E ssl \in BOOLEAN :
          session = [at |-> "async_read", m_SSL |-> ssl, m_Ec |-> Success,
                     m_Request |-> NoRequest,
                     m_Result |-> Response(200, "", NoRequest),
                     close |-> FALSE, shut |-> "none", reads |-> 0]
    /\ \E n \in 0..Cardinality(Observers) :
          m_Observers = SubSeq(<<"obs1", "obs2">>, 1, n)
    /\ updates = <<>>
    /\ alive = Observers
    /\ hist = NoCycle
    /\ pc = <<>>
    /\ io = <<>>
    /\ server = <<>>
    /\ NoJson /\ NoMemory /\ NoSingleton

beside_session ==
    <<json, memory, m_Instance, instances, pc, io, server, alive, m_Observers>>

\* on_read(ec, ...) with a request: m_Ec = ec; if(!ec) { ... }
OnReadRequest ==
    /\ session.at = "async_read"
    /\ session.reads < MaxRequests
    /\ \E req \in Requests, dir \in BOOLEAN, disk \in Disk :
          /\ session' = [session EXCEPT
                !.at = "notify", !.m_Ec = Success, !.m_Request = req,
                !.m_Result = on_read_ok(req, dir, disk).m_Result,
                !.reads = @ + 1]
          /\ hist' = [NoCycle EXCEPT
                !.read = Success,
                !.built = <<on_read_ok(req, dir, disk).m_Result>>,
                !.looked = on_read_ok(req, dir, disk).looked,
                !.loaded = on_read_ok(req, dir, disk).loaded]
    /\ updates' = <<>>
    /\ UNCHANGED beside_session

\* on_read(ec, ...): else if(ec == http::error::end_of_stream) return close();
OnReadEnd ==
    /\ session.at = "async_read"
    /\ \E result \in {Success, "not_connected"} :
          session' = [close([session EXCEPT !.m_Ec = "end_of_stream"], result)
                        EXCEPT !.at = "returned"]
    /\ hist' = [NoCycle EXCEPT !.read = "end_of_stream"]
    /\ updates' = <<>>
    /\ UNCHANGED beside_session

\* on_read(ec, ...): any other error is answered with a 500 result
OnReadError ==
    /\ session.at = "async_read"
    /\ session.reads < MaxRequests
    /\ session' = [session EXCEPT
          !.at = "notify", !.m_Ec = "error",
          !.m_Result = on_read_error(session), !.reads = @ + 1]
    /\ hist' = [NoCycle EXCEPT !.read = "error",
                               !.built = <<on_read_error(session)>>]
    /\ updates' = <<>>
    /\ UNCHANGED beside_session

\* on_read: m_Buffer.consume(...); notify();
NotifyObservers ==
    /\ session.at = "notify"
    /\ \E answers \in [DOMAIN m_Observers -> Answers] :
          /\ session' = [update_each(session, answers, 1) EXCEPT
                            !.at = "async_write"]
          /\ hist' = [hist EXCEPT !.notified = @ + 1,
                                  !.held = <<Held(session.m_Result, answers)>>]
    /\ updates' = updates \o notify(m_Observers)
    /\ UNCHANGED beside_session

\* on_read: http::async_write(..., m_Result, ... on_write ..., m_Result.need_eof())
AsyncWrite ==
    /\ session.at = "async_write"
    /\ session' = [session EXCEPT !.at = "writing",
                                  !.close = need_eof(session.m_Result)]
    /\ hist' = [hist EXCEPT !.written = Append(@, session.m_Result)]
    /\ UNCHANGED updates
    /\ UNCHANGED beside_session

\* on_write that reads on whether or not the result asked to close
on_write_reading(sess, ec, result) ==
    IF ec = "broken_pipe" THEN [close(sess, result) EXCEPT !.at = "returned"]
    ELSE IF ec # Success THEN [sess EXCEPT !.at = "thrown"]
    ELSE do_read([sess EXCEPT !.m_Result = clear(@)])

\* on_write(ec, ..., close): what the session is after it
on_write(sess, ec, result) ==
    IF ec = "broken_pipe" THEN [close(sess, result) EXCEPT !.at = "returned"]
    ELSE IF ec # Success THEN [sess EXCEPT !.at = "thrown"]
    ELSE IF sess.close THEN [close(sess, result) EXCEPT !.at = "returned"]
    ELSE do_read([sess EXCEPT !.m_Result = clear(@)])

\* the async_write completes and on_write runs
OnWrite ==
    /\ session.at = "writing"
    /\ \E ec \in {Success, "broken_pipe", "error"},
          result \in {Success, "not_connected"} :
          /\ session' = on_write(session, ec, result)
          /\ hist' = IF on_write(session, ec, result).at = "async_read"
                      THEN [hist EXCEPT !.wrote = ec, !.started = @ + 1,
                                        !.built = <<>>, !.looked = <<>>,
                                        !.loaded = <<>>]
                      ELSE [hist EXCEPT !.wrote = ec]
    /\ UNCHANGED updates
    /\ UNCHANGED beside_session

NextSession ==
    \/ OnReadRequest
    \/ OnReadEnd
    \/ OnReadError
    \/ NotifyObservers
    \/ AsyncWrite
    \/ OnWrite

SpecSession == InitSession /\ [][NextSession]_vars

\* C21 -- HTTP session request cycle: for every request read without
\* error the session builds its default result, then notifies its
\* observers once, then writes one response, the one held after the
\* observers ran (a result set with setResult during update replaces the
\* default); the next read starts only after that write completed and only
\* if the response does not require closing.
C21_RequestCycle ==
    hist.read = Success =>
       /\ session.at = "notify" =>
             /\ Len(hist.built) = 1
             /\ hist.notified = 0 /\ hist.written = <<>>
             /\ session.m_Result = hist.built[1]
       /\ session.at = "async_write" =>
             /\ hist.notified = 1 /\ hist.written = <<>>
             /\ Len(updates) = Len(m_Observers)
       /\ session.at \in {"writing", "returned", "thrown", "async_read"} =>
             /\ hist.notified = 1
             /\ hist.written = hist.held
       /\ session.at = "writing" => hist.started = 0
       /\ hist.started <= 1
       /\ hist.started = 1 =>
             /\ session.at = "async_read"
             /\ hist.wrote = Success
             /\ hist.written[1].keep_alive

\* a request was answered with the result an observer set and read on
C21_Witness ==
    /\ hist.read = Success
    /\ hist.started = 1
    /\ hist.written # hist.built
    /\ session.reads = MaxRequests

\* C26 -- The session rejects illegal targets before touching the file
\* system: a GET or HEAD request whose target is empty, does not start
\* with '/' or contains ".." gets the default result 400 and no path is
\* looked up or loaded; any other method gets 400 without a lookup; a file
\* is loaded only for a GET or HEAD request whose target passed the checks.
C26_IllegalTargetRejected ==
    (hist.read = Success /\ session.at = "notify") =>
        LET req == session.m_Request
            fetch == req.method \in {"get", "head"}
            empty == Len(req.target) = 0
            relative == ~empty /\ Head(req.target) # "/"
            dots == \E i \in DOMAIN req.target :
                       i > 1 /\ SubSeq(req.target, i - 1, i) = <<".", ".">>
            refused == /\ session.m_Result.status = 400
                       /\ hist.looked = <<>>
                       /\ hist.loaded = <<>>
        IN  /\ (fetch /\ (empty \/ relative \/ dots)) => refused
            /\ ~fetch => refused
            /\ hist.loaded # <<>> => (fetch /\ ~empty /\ ~relative /\ ~dots)

\* GET /.. was read and refused
C26_Witness ==
    /\ hist.read = Success
    /\ session.at = "notify"
    /\ session.m_Request.method = "get"
    /\ session.m_Request.target = <<"/", ".", ".">>
    /\ session.m_Result.status = 400

\* C27 -- End of stream closes the session: when a read completes with
\* end_of_stream, close() takes effect (the socket is shut down or the SSL
\* shutdown is started), no observer is notified and no further read or
\* write is started on the session.
C27_EndOfStreamCloses ==
    hist.read = "end_of_stream" =>
        /\ session.shut # "none"
        /\ hist.notified = 0
        /\ updates = <<>>
        /\ hist.written = <<>>
        /\ session.at = "returned"

---------------------------------------------------------------------------
(* Observable<T> whose observers the program also destroys: a weak_ptr to  *)
(* a destroyed observer is expired wherever it is kept (SpecNotify).       *)

\* the weak_ptr the program holds to observer obs
weak(obs) == IF obs \in alive THEN obs ELSE Gone

\* the weak_ptr kept in m_Observers after the observers in dead are destroyed
expire(list, dead) ==
    [i \in DOMAIN list |-> IF list[i] \in dead THEN Gone ELSE list[i]]

\* notify(): the offset of the first curObs whose lock() is nullptr
first_nullptr(list) ==
    IF \E i \in DOMAIN list : lock(list[i]) = nullptr
      THEN CHOOSE i \in DOMAIN list :
              /\ lock(list[i]) = nullptr
              /\ \A j \in 1..(i - 1) : lock(list[j]) # nullptr
      ELSE 0

\* notify(): the update() calls made; curObs.lock()->update( ... ) through
\* nullptr either ends the program or runs update with a null this
notify_calls(list, faults) ==
    IF first_nullptr(list) = 0 \/ ~faults THEN notify(list)
    ELSE SubSeq(notify(list), 1, first_nullptr(list) - 1)

Noted(name, obs, fault) ==
    [name |-> name, obs |-> obs, before |-> m_Observers, fault |-> fault]

InitNotify ==
    /\ m_Observers = <<>>
    /\ updates = <<>>
    /\ alive = Observers
    /\ hist = [name |-> "none", obs |-> nullptr, before |-> <<>>,
               fault |-> FALSE]
    /\ NoJson /\ NoMemory /\ NoSingleton /\ NoServer

beside_notify ==
    <<json, memory, m_Instance, instances, pc, io, server, session>>

SubscribeWeak(obs) ==
    /\ ~hist.fault
    /\ Len(m_Observers) < MaxObservers
    /\ m_Observers' = subscribe(m_Observers, weak(obs))
    /\ hist' = Noted("subscribe", weak(obs), FALSE)
    /\ UNCHANGED <<updates, alive>>
    /\ UNCHANGED beside_notify

UnsubscribeWeak(obs) ==
    /\ ~hist.fault
    /\ m_Observers' = unsubscribe(m_Observers, weak(obs))
    /\ hist' = Noted("unsubscribe", weak(obs), FALSE)
    /\ UNCHANGED <<updates, alive>>
    /\ UNCHANGED beside_notify

\* the last shared_ptr to obs goes: ~Observer
DestroyObserver(obs) ==
    /\ ~hist.fault
    /\ obs \in alive
    /\ alive' = alive \ {obs}
    /\ m_Observers' = expire(m_Observers, {obs})
    /\ hist' = Noted("destroy", obs, FALSE)
    /\ UNCHANGED updates
    /\ UNCHANGED beside_notify

NotifyAlive ==
    /\ ~hist.fault
    /\ \E faults \in BOOLEAN :
          /\ updates' = notify_calls(m_Observers, faults)
          /\ hist' = Noted("notify", nullptr,
                           faults /\ first_nullptr(m_Observers) # 0)
    /\ UNCHANGED <<m_Observers, alive>>
    /\ UNCHANGED beside_notify

NextNotify ==
    \/ \E obs \in Observers :
          \/ SubscribeWeak(obs)
          \/ UnsubscribeWeak(obs)
          \/ DestroyObserver(obs)
    \/ NotifyAlive

SpecNotify == InitNotify /\ [][NextNotify]_vars

\* C28 -- notify() reaches exactly the live subscribers: each notify()
\* calls update once per subscription whose observer is alive, in
\* subscription order, and skips, without dereferencing it, every
\* subscription whose observer was destroyed after it subscribed;
\* subscribe of an expired observer adds nothing.
C28_NotifyLive ==
    /\ hist.name = "notify" =>
          /\ ~hist.fault
          /\ updates = SelectSeq(m_Observers, LAMBDA o : o \in alive)
    /\ (hist.name = "subscribe" /\ hist.obs = Gone) =>
          m_Observers = hist.before

---------------------------------------------------------------------------
(* The program handing Load one number literal, with or without            *)
(* whitespace around it (SpecNumber).  value is the number the literal     *)
(* denotes.                                                                *)

MaxDigits == 2    \* digits of the whole part or the fraction of a literal

\* digit+
DigitRuns(n) == SeqsUpTo({"0", "4"}, n) \ {<<>>}

\* ('e'|'E') ('-'|'+')? digit+
Exponents ==
    { e \o s \o d : e \in {<<"e">>, <<"E">>}, s \in {<<>>, <<"-">>, <<"+">>},
                    d \in {<<"2">>} }

\* number := '-'? digit+ ('.' digit+)? (('e'|'E') ('-'|'+')? digit+)?
NumberParts ==
    [sign : {<<>>, <<"-">>}, whole : DigitRuns(MaxDigits),
     fraction : {<<>>} \cup DigitRuns(MaxDigits),
     exponent : {<<>>} \cup Exponents]

Literal(p) ==
    p.sign \o p.whole
       \o (IF p.fraction = <<>> THEN <<>> ELSE <<".">> \o p.fraction)
       \o p.exponent

\* the exponent an exponent part denotes
ExponentOf(e) ==
    IF e = <<>> THEN 0
    ELSE IF e[2] = "-" THEN -DigitsValue(SubSeq(e, 3, Len(e)), 0)
    ELSE IF e[2] = "+" THEN DigitsValue(SubSeq(e, 3, Len(e)), 0)
    ELSE DigitsValue(SubSeq(e, 2, Len(e)), 0)

\* Integral without '.' and exponent, else Floating mantissa x 10^exponent
Denoted(p) ==
    IF p.fraction = <<>> /\ p.exponent = <<>>
      THEN Integral(Signed(p.sign # <<>>, DigitsValue(p.whole, 0)))
      ELSE Floating(Norm(Signed(p.sign # <<>>,
                                DigitsValue(p.whole \o p.fraction, 0)),
                         ExponentOf(p.exponent) - Len(p.fraction)))

Blank == {<<>>, <<" ">>}

InitNumber ==
    /\ \E p \in NumberParts, before \in Blank, after \in Blank :
          /\ value = Denoted(p)
          /\ text = before \o Literal(p) \o after
    /\ beyond \in Beyond
    /\ ref = <<>>
    /\ stmt = value
    /\ pre = Null
    /\ op = NoOp
    /\ out = NoCall
    /\ members = <<>>
    /\ BesideJson

\* loaded = JSON::Load( text, ok )
LoadNumber ==
    /\ op = NoOp
    /\ out' = Load(text, beyond)
    /\ op' = [NoOp EXCEPT !.name = "Load"]
    /\ UNCHANGED <<value, ref, stmt, pre, members, text, beyond>>
    /\ UNCHANGED beside_json

NextNumber == LoadNumber

SpecNumber == InitNumber /\ [][NextNumber]_vars

\* C22 -- Number literals are accepted wherever they end: for a text that
\* is a number literal, with or without whitespace around it, the case
\* that its last digit ends the input included, Load returns ok = true
\* with tag Integral and the literal's value when the literal has neither
\* '.' nor exponent, and tag Floating with its value otherwise.
C22_NumberAccepted ==
    op.name = "Load" =>
        /\ out.kind = "value"
        /\ out.ok
        /\ out.val = value

---------------------------------------------------------------------------
(* JSON::ToBool( ok ) on values of every tag (SpecBool).                   *)

MaxWords == 2     \* pieces of the text of a String the program converts

\* the digits of INT_MAX, 2^31 - 1, and of -INT_MIN
IntMaxDigits == <<"2", "1", "4", "7", "4", "8", "3", "6", "4", "7">>

IntMinDigits == [IntMaxDigits EXCEPT ![Len(IntMaxDigits)] = "8"]

\* whether the magnitude written by the digits z (no leading zeros) fits
\* a 32-bit int
FitsInt(z, negative) ==
    \/ Len(z) < Len(IntMaxDigits)
    \/ /\ Len(z) = Len(IntMaxDigits)
       /\ \/ z = IntMaxDigits
          \/ StrLess(z, IntMaxDigits)
          \/ (negative /\ z = IntMinDigits)

\* Internal.String->find( word ) != std::string::npos
find(s, word) ==
    \E i \in 0..(Len(s) - Len(word)) : SubSeq(s, i + 1, i + Len(word)) = word

\* find that looks at the beginning of the string only
find_first(s, word) == SubSeq(s, 1, Len(word)) = word

\* the int that from_chars stores for the digits d
RECURSIVE parsed_int(_, _, _)
parsed_int(negative, d, acc) ==
    IF d = <<>> THEN acc
    ELSE parsed_int(negative, Tail(d),
                    10 * acc + Signed(negative, Code(Head(d)) - 48))

\* int parsed; std::from_chars( data, data + size, parsed ); the test of
\* result.ec; return parsed as bool
from_chars_long(negative, d) ==
    IF d = <<>> THEN Converted(FALSE, FALSE)
    ELSE Converted(\E i \in DOMAIN d : d[i] # "0", TRUE)

from_chars_int(negative, d) ==
    IF d = <<>> THEN Converted(FALSE, FALSE)
    ELSE IF ~FitsInt(StripZeros(d), negative) THEN Converted(FALSE, FALSE)
    ELSE Converted(parsed_int(negative, d, 0) # 0, TRUE)

\* ToBool( ok ) of a String
string_to_bool(s) ==
    IF find(s, <<"t", "r", "u", "e">>) THEN Converted(TRUE, TRUE)
    ELSE IF find(s, <<"f", "a", "l", "s", "e">>) THEN Converted(FALSE, TRUE)
    ELSE from_chars_int(Negative(s), DigitRun(Unsigned(s)))

\* bool ToBool( bool &ok ) const
ToBool(v) ==
    CASE v.Type = "Boolean"  -> Converted(v.Bool, TRUE)
      [] v.Type = "Integral" -> Converted(v.Int # 0, TRUE)
      [] v.Type = "Floating" -> Converted(v.Float.mant # 0, TRUE)
      [] v.Type = "String"   -> string_to_bool(v.String)
      [] OTHER               -> Converted(FALSE, FALSE)

\* the pieces of the strings the program converts
Words ==
    { <<"t", "r", "u", "e">>, <<"f", "a", "l", "s", "e">>, <<"0">>, <<"4">>,
      <<"-">>, <<"a">>, IntMaxDigits, IntMinDigits }

BoolValues ==
    { String(Flatten(ws)) : ws \in SeqsUpTo(Words, MaxWords) }
        \cup { Null, Boolean(TRUE), Boolean(FALSE), Integral(0), Integral(-3),
               Floating(Norm(0, 0)), Floating(Norm(15, -1)),
               Array(<<Boolean(TRUE)>>),
               Object([k \in {<<"a">>} |-> Boolean(TRUE)]) }

InitBool ==
    /\ value \in BoolValues
    /\ ref = <<>>
    /\ stmt = value
    /\ pre = value
    /\ op = NoOp
    /\ out = NoCall
    /\ members = <<>>
    /\ text = <<>>
    /\ beyond = <<>>
    /\ BesideJson

\* b = value.ToBool( ok )
ToBoolCall ==
    /\ op = NoOp
    /\ out' = ToBool(value)
    /\ op' = [NoOp EXCEPT !.name = "ToBool"]
    /\ UNCHANGED <<value, ref, stmt, pre, members, text, beyond>>
    /\ UNCHANGED beside_json

NextBool == ToBoolCall

SpecBool == InitBool /\ [][NextBool]_vars

\* the text has word in it
Contains(s, word) ==
    \E a, b \in 0..Len(s) :
        a <= b /\ SubSeq(s, a + 1, b) = word

\* the digits of the integer the text starts with, <<>> if it starts with none
LeadingInteger(s) == DigitRun(Unsigned(s))

NonZero(d) == \E i \in DOMAIN d : d[i] # "0"

\* what ToBool gives for the tags other than String
OtherTags ==
    /\ value.Type = "Boolean" => out = Converted(value.Bool, TRUE)
    /\ value.Type = "Integral" => out = Converted(value.Int # 0, TRUE)
    /\ value.Type = "Floating" => out = Converted(value.Float.mant # 0, TRUE)
    /\ value.Type \in {"Null", "Array", "Object"} => out = Converted(FALSE, FALSE)

\* a String with "true" or "false" in it
WordTexts ==
    value.Type = "String" =>
        /\ Contains(value.String, <<"t", "r", "u", "e">>) =>
              out = Converted(TRUE, TRUE)
        /\ (/\ ~Contains(value.String, <<"t", "r", "u", "e">>)
            /\ Contains(value.String, <<"f", "a", "l", "s", "e">>)) =>
              out = Converted(FALSE, TRUE)

Wordless ==
    /\ value.Type = "String"
    /\ ~Contains(value.String, <<"t", "r", "u", "e">>)
    /\ ~Contains(value.String, <<"f", "a", "l", "s", "e">>)

\* C23 -- ToBool resolution order (as claimed): the payload for Boolean,
\* the nonzero test for Integral and Floating, ok = true; for a String
\* (true, true) if the text has "true" anywhere, else (false, true) if it
\* has "false", else (n != 0, true) if the text starts with an integer n,
\* else (false, false); (false, false) for Null, Array and Object.
C23_ToBoolOrder ==
    op.name = "ToBool" =>
        /\ OtherTags
        /\ WordTexts
        /\ Wordless =>
              out = IF LeadingInteger(value.String) # <<>>
                      THEN Converted(NonZero(LeadingInteger(value.String)), TRUE)
                      ELSE Converted(FALSE, FALSE)

\* C23 -- ToBool resolution order (amended): as above, with a String that
\* has neither word giving (n != 0, true) only if it starts with an
\* integer n that an int holds, and (false, false) otherwise.
C23_ToBoolOrderInt ==
    op.name = "ToBool" =>
        /\ value = pre
        /\ OtherTags
        /\ WordTexts
        /\ Wordless =>
              out = IF /\ LeadingInteger(value.String) # <<>>
                       /\ FitsInt(StripZeros(LeadingInteger(value.String)),
                                  Negative(value.String))
                      THEN Converted(NonZero(LeadingInteger(value.String)), TRUE)
                      ELSE Converted(FALSE, FALSE)

\* ToBool ran on a text with "false" before "true"
C23_Witness ==
    /\ op.name = "ToBool"
    /\ value = String(<<"f", "a", "l", "s", "e", "t", "r", "u", "e">>)
    /\ out = Converted(TRUE, TRUE)

---------------------------------------------------------------------------
(* The program using operator[]( key ) and the const members on a value    *)
(* of any tag (SpecAccess).                                                *)

AccessValues ==
    { Null, Boolean(TRUE), Integral(-3), Floating(Norm(15, -1)),
      String(<<"a", QUOTE>>), Array(<<Integral(1), Null>>), Object(EmptyMap),
      Object([k \in {<<"b">>} |-> Integral(1)]),
      Object([k \in Keys |-> IF k = <<"a">> THEN String(<<"b">>)
                             ELSE Array(<<Integral(1)>>)]) }

\* the const members the program calls
Queries ==
    { "hasKey", "size", "length", "IsNull", "IsObject", "ToString", "ToInt",
      "ToBool", "dumpMinified" }

\* what the const member gives, and the value afterwards
const_call(name, v, key) ==
    Call(CASE name = "hasKey"   -> hasKey(v, key)
           [] name = "size"     -> size(v)
           [] name = "length"   -> length(v)
           [] name = "IsNull"   -> v.Type = "Null"
           [] name = "IsObject" -> v.Type = "Object"
           [] name = "ToString" -> ToString(v)
           [] name = "ToInt"    -> ToInt(v)
           [] name = "ToBool"   -> ToBool(v)
           [] name = "dumpMinified" -> dumpMinified(v),
         v)

InitAccess ==
    /\ value \in AccessValues
    /\ ref = <<>>
    /\ stmt = value
    /\ pre = value
    /\ op = NoOp
    /\ out = NoCall
    /\ members = <<>>
    /\ text = <<>>
    /\ beyond = <<>>
    /\ BesideJson

\* value[ k ];
KeyedAccess(k) ==
    /\ value' = subscript_key(value, k)
    /\ pre' = value
    /\ op' = [NoOp EXCEPT !.name = "subscript_key", !.key = k]
    /\ out' = NoCall
    /\ UNCHANGED <<ref, stmt, members, text, beyond>>
    /\ UNCHANGED beside_json

\* value.hasKey( k ), value.size(), ... : a const member
ConstCall(name, k) ==
    /\ value' = const_call(name, value, k).after
    /\ out' = Returned(const_call(name, value, k).result)
    /\ pre' = value
    /\ op' = [NoOp EXCEPT !.name = name, !.key = k]
    /\ UNCHANGED <<ref, stmt, members, text, beyond>>
    /\ UNCHANGED beside_json

NextAccess ==
    \E k \in Keys :
        \/ KeyedAccess(k)
        \/ \E name \in Queries : ConstCall(name, k)

SpecAccess == InitAccess /\ [][NextAccess]_vars

\* C24 -- Mutable keyed access coerces and frames: v[k] on a value whose
\* tag is not Object discards the prior payload and leaves v an Object
\* with exactly k mapped to Null; v[k] on an Object leaves every other
\* entry unchanged, keeps the value of k if k is present and adds k mapped
\* to Null only if k is absent.  A read-only query (hasKey, size, length,
\* Is*, To*, dump) never changes the tag or the payload.
C24_KeyedAccessFrames ==
    /\ (op.name = "subscript_key" /\ pre.Type # "Object") =>
          /\ value.Type = "Object"
          /\ DOMAIN value.Map = {op.key}
          /\ value.Map[op.key] = Null
    /\ (op.name = "subscript_key" /\ pre.Type = "Object") =>
          /\ value.Type = "Object"
          /\ DOMAIN value.Map = DOMAIN pre.Map \cup {op.key}
          /\ \A k \in DOMAIN pre.Map : value.Map[k] = pre.Map[k]
          /\ op.key \notin DOMAIN pre.Map => value.Map[op.key] = Null
    /\ op.name \in Queries => value = pre

\* v["a"] was called on an Object that had "b" only
C24_Witness ==
    /\ op.name = "subscript_key"
    /\ op.key = <<"a">>
    /\ pre = Object([k \in {<<"b">>} |-> Integral(1)])
    /\ DOMAIN value.Map = Keys

---------------------------------------------------------------------------
(* The program handing Load a text that was cut short: a beginning of a    *)
(* complete object or array text (SpecTruncated).                          *)

\* {"k":"aA"} and ["\n",{}]
CompleteTexts ==
    { <<"{", QUOTE, "k", QUOTE, ":", QUOTE, "a", BSLASH, "u", "0", "0", "4",
        "1", QUOTE, "}">>,
      <<"[", QUOTE, BSLASH, "n", QUOTE, ",", "{", "}", "]">> }

\* the texts that end before the last character of t
Beginnings(t) == { SubSeq(t, 1, n) : n \in 0..(Len(t) - 1) }

InitTruncated ==
    \E t \in CompleteTexts : \E b \in Beginnings(t) : Loading(<<>>, b)

NextTruncated == LoadText

SpecTruncated == InitTruncated /\ [][NextTruncated]_vars

\* C25 -- The cursor stays inside the input: for every input text,
\* truncated texts included (a string literal without its closing quote,
\* an object that ends after a key or a colon, a \u escape cut short), the
\* cursor of Load is never beyond the length of the input, the parse
\* terminates, and the truncation is reported as ok = false.
C25_CursorInside ==
    op.name = "Load" =>
        /\ out.kind = "value"
        /\ out.hi <= Len(text)
        /\ ~out.ok

---------------------------------------------------------------------------
(* The program building an Object whose keys hold characters that are      *)
(* written with an escape: from a text with Load, and with the             *)
(* initializer-list constructor (SpecKeys).                                *)

KeyTexts == { <<"a">>, <<"a", QUOTE>>, <<LF>> }

KeyedMembers == { [key |-> k, val |-> v] : k \in KeyTexts, v \in {Integral(1), Null} }

\* the members written as a text, each key as a string literal
RECURSIVE KeyedText(_, _)
KeyedText(ms, first) ==
    IF ms = <<>> THEN <<>>
    ELSE (IF first THEN <<>> ELSE <<",">>)
         \o <<QUOTE>> \o json_escape(Head(ms).key) \o <<QUOTE, ":">>
         \o dumpMinified(Head(ms).val) \o KeyedText(Tail(ms), FALSE)

\* JSON( initializer_list<JSON> list ): operator[]( i->ToString() ) = *std::next( i )
RECURSIVE initializer_list(_, _)
initializer_list(obj, ms) ==
    IF ms = <<>> THEN obj
    ELSE initializer_list(ObjectPut(obj, String(Head(ms).key), Head(ms).val),
                          Tail(ms))

InitKeys ==
    \E ms \in SeqsUpTo(KeyedMembers, MaxMembers) :
        Loading(ms, <<"{">> \o KeyedText(ms, TRUE) \o <<"}">>)

\* JSON obj = { k1, v1, k2, v2, ... };
ConstructList ==
    /\ op = NoOp
    /\ out' = [kind |-> "value", ok |-> TRUE, hi |-> -1,
               val |-> initializer_list(SetType(Null, "Object"), members)]
    /\ value' = out'.val
    /\ op' = [NoOp EXCEPT !.name = "JSON"]
    /\ UNCHANGED <<ref, stmt, pre, members, text, beyond>>
    /\ UNCHANGED beside_json

NextKeys ==
    \/ LoadText
    \/ ConstructList

SpecKeys == InitKeys /\ [][NextKeys]_vars

\* C29 -- Parsed keys are stored decoded: for an object text that Load
\* accepts, each member is found under the decoded text of its key: for a
\* key literal with escape sequences hasKey(k) is true and at(k) gives the
\* member's value for the unescaped key text k, as for a key inserted with
\* operator[](k); the same holds for the keys given to the
\* initializer-list constructor.
C29_KeysDecoded ==
    op.name \in {"Load", "JSON"} =>
        /\ out.kind = "value"
        /\ out.ok
        /\ out.val.Type = "Object"
        /\ \A k \in KeysOf(members) :
              /\ hasKey(out.val, k)
              /\ at_key(out.val, k).result = Returned(LastOf(members, k))
        /\ DOMAIN out.val.Map = KeysOf(members)

---------------------------------------------------------------------------
(* The program assigning to an object a from an object stored inside a:    *)
(* a = a[i], a = std::move( a[i] ), and a = a (SpecDescendant).  other is  *)
(* a reference to element i of a's container.                              *)

Parents ==
    {String(<<"x">>),
     Array(<<String(<<"x">>), Integral(1)>>),
     Array(<<Array(<<String(<<"x">>)>>)>>),
     Object([k \in {<<"k">>} |-> Array(<<Integral(1)>>)]),
     Object([k \in {<<"a">>, <<"k">>} |->
                IF k = <<"a">> THEN String(<<"y">>) ELSE Null])}

\* the elements a reference into the object can name
Elements(h, cell) ==
    IF Owns(cell) THEN DOMAIN Cells(cell.Type, h[cell.Internal].payload) ELSE {}

\* other.Type and other.Internal, read from the container of `holder`
element(h, holder, i) == Cells(holder.Type, h[holder.Internal].payload)[i]

\* the read of other finds the container's storage released
released_read(h, holder) == h[holder.Internal].released > 0

\* operator=( const JSON &other ) with other element i of this:
\* ClearInternal(); switch( other.Type ) ... ; Type = other.Type;
copy_assign_element(h, this, i) ==
    copy_construct(ClearInternal(h, this), element(ClearInternal(h, this), this, i))

\* operator=( JSON&& other ) with other element i of this:
\* ClearInternal(); Internal = other.Internal; Type = other.Type; ...
move_assign_element(h, this, i) ==
    Placed(ClearInternal(h, this), element(ClearInternal(h, this), this, i))

InitDescendant ==
    /\ \E va \in Parents :
          /\ objs = declare_b(construct(<<>>, va), Undeclared).cell
          /\ heap = declare_b(construct(<<>>, va), Undeclared).heap
    /\ log = <<>>
    /\ BesideMemory

\* the program has not faulted and goes on
Going ==
    /\ Declared("a")
    /\ Len(log) < MaxSteps
    /\ \A j \in DOMAIN log : ~log[j].fault

Assigned(name, i, p, uaf, fault) ==
    /\ heap' = IF fault THEN heap ELSE p.heap
    /\ objs' = IF fault THEN objs ELSE [objs EXCEPT !["a"] = p.cell]
    /\ log' = Append(log,
                 [name |-> name, uaf |-> uaf, fault |-> fault,
                  was |-> Dumped(heap, objs["a"]),
                  element |-> IF i = 0 THEN <<>>
                              ELSE Dumped(heap, element(heap, objs["a"], i))])
    /\ UNCHANGED beside_memory

\* a = a[i];  the read of the released element gives what was there, or
\* the program faults
CopyFromElement(i) ==
    /\ Going
    /\ \E fault \in BOOLEAN :
          Assigned("copy_assign", i, copy_assign_element(heap, objs["a"], i),
                   released_read(ClearInternal(heap, objs["a"]), objs["a"]),
                   fault)

\* a = std::move( a[i] );
MoveFromElement(i) ==
    /\ Going
    /\ \E fault \in BOOLEAN :
          Assigned("move_assign", i, move_assign_element(heap, objs["a"], i),
                   released_read(ClearInternal(heap, objs["a"]), objs["a"]),
                   fault)

\* a = a;
CopyFromSelf ==
    /\ Going
    /\ Assigned("copy_assign_self", 0,
                copy_assign(heap, objs["a"], objs["a"], TRUE), FALSE, FALSE)

\* the scope of a ends
DestroyParent ==
    /\ Declared("a")
    /\ log # <<>>
    /\ \A j \in DOMAIN log : ~log[j].fault
    /\ heap' = destructor(heap, objs["a"])
    /\ objs' = [objs EXCEPT !["a"] = Undeclared]
    /\ UNCHANGED log
    /\ UNCHANGED beside_memory

NextDescendant ==
    \/ \E i \in Elements(heap, objs["a"]) :
          \/ CopyFromElement(i)
          \/ MoveFromElement(i)
    \/ CopyFromSelf
    \/ DestroyParent

SpecDescendant == InitDescendant /\ [][NextDescendant]_vars

\* C30 -- Assignment from an own descendant is safe: copy- or
\* move-assigning to a value v from a value stored inside v (v = v["a"],
\* v = v[0]) leaves v equal to the value the descendant held before, and
\* at no step reads a payload that was already released; self-assignment
\* v = v leaves v unchanged.
C30_DescendantSafe ==
    /\ \A j \in DOMAIN log : ~log[j].uaf /\ ~log[j].fault
    /\ \A addr \in DOMAIN heap : heap[addr].released <= 1
    /\ (log # <<>> /\ Declared("a")) =>
          Dumped(heap, objs["a"]) =
             IF LastStatement.name = "copy_assign_self" THEN LastStatement.was
             ELSE LastStatement.element

=============================================================================
